---- MODULE Spec2Model ----
(***************************************************************************)
(* CAPIClusterProvider (catalog-backend-module-capi): the entity provider  *)
(* that lists Cluster API clusters on a hub, reads each cluster's          *)
(* kubeconfig secret, maps every cluster to a Backstage Resource entity    *)
(* and submits the whole list as one full mutation.                        *)
(*                                                                         *)
(* Strings are TLA+ strings, except the value of the tags annotation and   *)
(* the tags themselves, which are sequences of one-character strings so    *)
(* that split(',') and trim() can be computed character by character.      *)
(***************************************************************************)
EXTENDS Integers, Sequences, FiniteSets, TLC

\* ---------------------------------------------------------------- bounds
MaxClusters == 2      \* longest list the hub's list call returns
MaxConnects == 2      \* how many times connect is called at most
MaxErrorLog == 1      \* the error log saturates at this many entries
MaxTagLen == 3        \* longest tags annotation, in characters
MaxProviders == 2     \* most provider keys under catalog.providers.capi
MaxRequests == 2      \* most GET /status requests in flight at once
MaxCycles == 1        \* most refresh cycles of the providers built from a configuration

\* ------------------------------------------------- JavaScript's undefined
\* One sentinel per carrier type, so that TLC only ever compares like
\* with like.
Undefined == "<undefined>"
UndefinedChars == <<Undefined>>
UndefinedTags == <<UndefinedChars>>
UndefinedObject == [undefined |-> TRUE]
UndefinedArray == <<UndefinedObject>>

IsUndefined(obj) == "undefined" \in DOMAIN obj

\* `${v}` for a possibly undefined string
Str(v) == IF v = Undefined THEN "undefined" ELSE v

\* a || b on strings: undefined and '' are falsy
OrStr(a, b) == IF a # Undefined /\ a # "" THEN a ELSE b

\* a || b on arrays: only undefined is falsy, an empty array is truthy
OrTags(a, b) == IF a # UndefinedTags THEN a ELSE b

\* --------------------------------------------------------------- constants
ANNOTATION_CAPI_PROVIDER == "cluster.x-k8s.io/capi-provider"
ANNOTATION_CAPI_CLUSTER_LIFECYCLE == "cluster.x-k8s.io/cluster-lifecycle"
ANNOTATION_CAPI_CLUSTER_OWNER == "cluster.x-k8s.io/cluster-owner"
ANNOTATION_CAPI_CLUSTER_DESCRIPTION == "cluster.x-k8s.io/cluster-description"
ANNOTATION_CAPI_CLUSTER_SYSTEM == "cluster.x-k8s.io/cluster-system"
ANNOTATION_CAPI_CLUSTER_TAGS == "cluster.x-k8s.io/cluster-tags"

ANNOTATION_LOCATION == "backstage.io/managed-by-location"
ANNOTATION_ORIGIN_LOCATION == "backstage.io/managed-by-origin-location"
ANNOTATION_KUBERNETES_API_SERVER == "kubernetes.io/api-server"
ANNOTATION_KUBERNETES_API_SERVER_CA == "kubernetes.io/api-server-certificate-authority"
ANNOTATION_KUBERNETES_AUTH_PROVIDER == "kubernetes.io/auth-provider"

CAPI_CLUSTER_SECRET_TYPE == "cluster.x-k8s.io/secret"

\* ------------------------------------------------------- string functions
\* A string is a sequence of characters.  The characters that
\* String.prototype.trim() removes: the white space and line terminator
\* code points of ECMAScript.  Those a string literal here cannot spell are
\* written by their code point.
Whitespace ==
  { " ", "\t", "\n", "\r", "\f",
    "U+000B", "U+00A0", "U+1680",
    "U+2000", "U+2001", "U+2002", "U+2003", "U+2004", "U+2005",
    "U+2006", "U+2007", "U+2008", "U+2009", "U+200A",
    "U+2028", "U+2029", "U+202F", "U+205F", "U+3000", "U+FEFF" }

\* String.prototype.split(sep) for a one-character separator: the pieces
\* between the separators, in order; the empty string gives one empty piece.
RECURSIVE SplitFrom(_, _, _)
SplitFrom(s, sep, cur) ==
  IF s = <<>> THEN <<cur>>
  ELSE IF Head(s) = sep THEN <<cur>> \o SplitFrom(Tail(s), sep, <<>>)
  ELSE SplitFrom(Tail(s), sep, Append(cur, Head(s)))

Split(s, sep) == SplitFrom(s, sep, <<>>)

RECURSIVE TrimStart(_)
TrimStart(s) ==
  IF s # <<>> /\ Head(s) \in Whitespace THEN TrimStart(Tail(s)) ELSE s

RECURSIVE TrimEnd(_)
TrimEnd(s) ==
  IF s # <<>> /\ s[Len(s)] \in Whitespace
  THEN TrimEnd(SubSeq(s, 1, Len(s) - 1)) ELSE s

\* String.prototype.trim()
Trim(s) == TrimEnd(TrimStart(s))

\* ------------------------------------------------------ cluster accessors
\* cluster.spec.infrastructureRef?.kind without the ?? ''
capiClusterProvider_NoFallback(cluster) ==
  IF IsUndefined(cluster.spec.infrastructureRef) THEN Undefined
  ELSE cluster.spec.infrastructureRef.kind

\* cluster.spec.infrastructureRef?.kind ?? ''
capiClusterProvider(cluster) ==
  IF IsUndefined(cluster.spec.infrastructureRef) THEN ""
  ELSE IF cluster.spec.infrastructureRef.kind = Undefined THEN ""
  ELSE cluster.spec.infrastructureRef.kind

\* `${cluster.metadata?.namespace}/${cluster.metadata?.name}`
clusterName(cluster) ==
  Str(cluster.metadata.namespace) \o "/" \o Str(cluster.metadata.name)

\* cluster.metadata?.annotations?.[key]; undef is the undefined of the
\* value's type
Annotation(cluster, key, undef) ==
  IF IsUndefined(cluster.metadata.annotations) THEN undef
  ELSE IF key \in DOMAIN cluster.metadata.annotations
       THEN cluster.metadata.annotations[key]
       ELSE undef

\* ...?.split(',').map((s: string) => s.trim())
ParseTags_NoTrim(value) ==
  IF value = UndefinedChars THEN UndefinedTags ELSE Split(value, ",")

ParseTags(value) ==
  IF value = UndefinedChars THEN UndefinedTags
  ELSE LET pieces == Split(value, ",")
       IN [i \in 1..Len(pieces) |-> Trim(pieces[i])]

clusterAnnotations(cluster) ==
  [ lifecycle |-> Annotation(cluster, ANNOTATION_CAPI_CLUSTER_LIFECYCLE, Undefined),
    owner |-> Annotation(cluster, ANNOTATION_CAPI_CLUSTER_OWNER, Undefined),
    description |-> Annotation(cluster, ANNOTATION_CAPI_CLUSTER_DESCRIPTION, Undefined),
    system |-> Annotation(cluster, ANNOTATION_CAPI_CLUSTER_SYSTEM, Undefined),
    tags |-> ParseTags(Annotation(cluster, ANNOTATION_CAPI_CLUSTER_TAGS, UndefinedChars)) ]

\* ------------------------------------------------------ kubeconfig secret
\* The text of secret.data.value is carried as [base64 |-> document]: the
\* base64 text of a document.  A document is [kubeconfig |-> FALSE] when
\* KubeConfig.loadFromString throws on it (the empty string, broken YAML, a
\* cluster entry without a name) and [kubeconfig |-> TRUE, clusters |-> ...]
\* when it loads, clusters being its cluster entries in order.
EmptyString == [kubeconfig |-> FALSE]

\* Buffer.from(str, 'base64').toString('binary')
decodeBase64(str) == str.base64

\* new KubeConfig(): no clusters before anything is loaded
NewKubeConfig == [clusters |-> <<>>]

\* secret.data?.value ?? ''
SecretValue(secret) ==
  IF IsUndefined(secret.data) THEN [base64 |-> EmptyString]
  ELSE IF IsUndefined(secret.data.value) THEN [base64 |-> EmptyString]
  ELSE secret.data.value

\* kc.loadFromString(decoded) throws
LoadFails(secret) == ~decodeBase64(SecretValue(secret)).kubeconfig

\* loadFromString inside try/catch: a failed load is logged and the
\* KubeConfig is returned as constructed
decodeKubeConfigFromSecret(secret) ==
  LET decoded == decodeBase64(SecretValue(secret))
  IN IF LoadFails(secret)
     THEN NewKubeConfig
     ELSE [clusters |-> decoded.clusters]

\* A response of client.readNamespacedSecret: [error |-> TRUE] for a
\* rejected call (404, transport), else [error |-> FALSE, body |-> secret].
\* getClusterKubeConfig(...).catch(e => undefined)
LookupResult(response) ==
  IF response.error THEN UndefinedObject
  ELSE decodeKubeConfigFromSecret(response.body)

\* --------------------------------------------------------------- provider
getProviderName(config) == "CAPIClusterProvider:" \o config.id

\* this.config.defaults?.[field]
Default(config, field, undef) ==
  IF IsUndefined(config.defaults) THEN undef ELSE config.defaults[field]

\* The three API-server annotations of the object literal: the two
\* lookups go through clusterKubeConfig?.clusters[0], the auth provider is
\* written unconditionally.
ApiServerAnnotations(clusterKubeConfig) ==
  (ANNOTATION_KUBERNETES_API_SERVER :>
     (IF IsUndefined(clusterKubeConfig) THEN Undefined
      ELSE clusterKubeConfig.clusters[1].server)) @@
  (ANNOTATION_KUBERNETES_API_SERVER_CA :>
     (IF IsUndefined(clusterKubeConfig) THEN Undefined
      ELSE clusterKubeConfig.clusters[1].caData)) @@
  (ANNOTATION_KUBERNETES_AUTH_PROVIDER :> "oidc")

\* clusterKubeConfig?.clusters[0].server on a KubeConfig without cluster
\* entries: clusters[0] is undefined and reading .server of it is a TypeError
ResourceThrows(clusterKubeConfig) ==
  ~IsUndefined(clusterKubeConfig) /\ Len(clusterKubeConfig.clusters) = 0

\* tags || this.config.defaults?.tags
MetadataTags(tags, config) == OrTags(tags, Default(config, "tags", UndefinedTags))

\* the provider default consulted before the annotation
SpecOwner_DefaultFirst(owner, config) ==
  OrStr(OrStr(Default(config, "clusterOwner", Undefined), owner), "guest")

\* (owner || this.config.defaults?.clusterOwner) || 'guest'
SpecOwner(owner, config) ==
  OrStr(OrStr(owner, Default(config, "clusterOwner", Undefined)), "guest")

\* the annotation winning whenever it is present, also when it is empty
SpecLifecycle_Nullish(lifecycle, config) ==
  IF lifecycle # Undefined THEN lifecycle
  ELSE Default(config, "lifecycle", Undefined)

\* lifecycle || this.config.defaults?.lifecycle
SpecLifecycle(lifecycle, config) ==
  OrStr(lifecycle, Default(config, "lifecycle", Undefined))

\* system || this.config.defaults?.system
SpecSystem(system, config) == OrStr(system, Default(config, "system", Undefined))

\* The body of items.map(cluster => ...) in refresh
Resource(config, cluster, clusterKubeConfig) ==
  LET a == clusterAnnotations(cluster)
      resource ==
        [ kind |-> "Resource",
          apiVersion |-> "backstage.io/v1beta1",
          metadata |->
            [ name |-> cluster.metadata.name,
              title |-> cluster.metadata.name,
              description |-> a.description,
              annotations |->
                (ANNOTATION_LOCATION :> getProviderName(config)) @@
                (ANNOTATION_ORIGIN_LOCATION :> getProviderName(config)) @@
                (ANNOTATION_CAPI_PROVIDER :> capiClusterProvider(cluster)) @@
                ApiServerAnnotations(clusterKubeConfig),
              tags |-> MetadataTags(a.tags, config) ],
          spec |->
            [ owner |-> SpecOwner(a.owner, config),
              type |-> "kubernetes-cluster",
              lifecycle |-> SpecLifecycle(a.lifecycle, config),
              system |-> SpecSystem(a.system, config) ] ]
  IN IF ~IsUndefined(clusterKubeConfig)
     THEN [resource EXCEPT
             !.metadata.annotations[ANNOTATION_KUBERNETES_API_SERVER] =
                clusterKubeConfig.clusters[1].server,
             !.metadata.annotations[ANNOTATION_KUBERNETES_API_SERVER_CA] =
                clusterKubeConfig.clusters[1].caData,
             !.metadata.annotations[ANNOTATION_KUBERNETES_AUTH_PROVIDER] = "oidc"]
     ELSE resource

\* the elements of seq at the given indices, in order
RECURSIVE Pick(_, _)
Pick(seq, indices) ==
  IF indices = {} THEN <<>>
  ELSE LET m == CHOOSE i \in indices : \A j \in indices : i <= j
       IN <<seq[m]>> \o Pick(seq, indices \ {m})

\* new Map(pairs).get(key): the value of the last pair with that key
MapGet(pairs, key) ==
  LET hits == {i \in 1..Len(pairs) : pairs[i][1] = key}
  IN IF hits = {} THEN UndefinedObject
     ELSE pairs[CHOOSE i \in hits : \A j \in hits : j <= i][2]

\* the pairs keyed by the cluster's name alone, without its namespace
KubeConfigPairs_ByName(clusters, results) ==
  [i \in 1..Len(clusters) |-> <<Str(clusters[i].metadata.name), results[i]>>]

\* the [clusterName(cluster), kubeConfig] pairs handed to new Map
KubeConfigPairs(clusters, results) ==
  [i \in 1..Len(clusters) |-> <<clusterName(clusters[i]), results[i]>>]

\* kubeConfigs.get(clusterName(cluster)) for the i-th fetched cluster
ClusterKubeConfig(clusters, results, i) ==
  MapGet(KubeConfigPairs(clusters, results), clusterName(clusters[i]))

\* items.map throws when the mapping of any cluster throws
ResourcesThrow(clusters, results) ==
  \E i \in 1..Len(clusters) : ResourceThrows(ClusterKubeConfig(clusters, results, i))

resources(config, clusters, results) ==
  [i \in 1..Len(clusters) |->
     Resource(config, clusters[i], ClusterKubeConfig(clusters, results, i))]

\* a mutation that keeps one entry per entity name
Mutation_DedupByName(config, clusters, results) ==
  LET first == {i \in 1..Len(clusters) :
                  \A j \in 1..(i - 1) : clusters[j].metadata.name # clusters[i].metadata.name}
      entries == [i \in 1..Len(clusters) |->
                    [ entity |-> resources(config, clusters, results)[i],
                      locationKey |-> getProviderName(config) ]]
  IN [ type |-> "full", entities |-> Pick(entries, first) ]

\* the argument of connection.applyMutation
Mutation(config, clusters, results) ==
  [ type |-> "full",
    entities |->
      [i \in 1..Len(clusters) |->
         [ entity |-> resources(config, clusters, results)[i],
           locationKey |-> getProviderName(config) ]] ]

\* ------------------------------------- the provider without kubeconfigs
\* The variant of the provider that has no CoreV1Api client and reads no
\* secret; its clusterAnnotations and capiClusterProvider are the same
\* functions.  The body of items.map(cluster => ...) in its refresh:
ResourceWithoutKubeConfig(config, cluster) ==
  LET a == clusterAnnotations(cluster)
  IN [ kind |-> "Resource",
       apiVersion |-> "backstage.io/v1beta1",
       metadata |->
         [ name |-> cluster.metadata.name,
           title |-> cluster.metadata.name,
           description |-> a.description,
           annotations |->
             (ANNOTATION_LOCATION :> getProviderName(config)) @@
             (ANNOTATION_ORIGIN_LOCATION :> getProviderName(config)) @@
             (ANNOTATION_CAPI_PROVIDER :> capiClusterProvider(cluster)),
           tags |-> MetadataTags(a.tags, config) ],
       spec |->
         [ owner |-> SpecOwner(a.owner, config),
           type |-> "kubernetes-cluster",
           lifecycle |-> SpecLifecycle(a.lifecycle, config),
           system |-> SpecSystem(a.system, config) ] ]

\* the argument of connection.applyMutation in the variant
MutationWithoutKubeConfig(config, clusters) ==
  [ type |-> "full",
    entities |->
      [i \in 1..Len(clusters) |->
         [ entity |-> ResourceWithoutKubeConfig(config, clusters[i]),
           locationKey |-> getProviderName(config) ]] ]

\* A mutation as the catalog receives it: an annotation whose value is
\* undefined is not a key of the entity.
Received(mutation) ==
  [ type |-> mutation.type,
    entities |->
      [i \in 1..Len(mutation.entities) |->
         LET annotations == mutation.entities[i].entity.metadata.annotations
             carried == {k \in DOMAIN annotations : annotations[k] # Undefined}
         IN [ mutation.entities[i] EXCEPT
                !.entity.metadata.annotations = [k \in carried |-> annotations[k]] ]] ]

\* ------------------------------------------------------------ environment
\* The Cluster objects the hub may hold, in the order its list call returns
\* them (by namespace and name).
HubClusters ==
  << [ metadata |->
         [ name |-> "cluster1", namespace |-> "clusters",
           annotations |-> (ANNOTATION_CAPI_CLUSTER_LIFECYCLE :> "production") ],
       spec |-> [ infrastructureRef |-> [kind |-> "AWSManagedCluster"] ] ],
     [ metadata |->
         [ name |-> "cluster2", namespace |-> "clusters",
           annotations |->
             (ANNOTATION_CAPI_CLUSTER_LIFECYCLE :> "production") @@
             (ANNOTATION_CAPI_CLUSTER_OWNER :> "group:pet-managers") @@
             (ANNOTATION_CAPI_CLUSTER_DESCRIPTION :> "This is the production Cluster") @@
             (ANNOTATION_CAPI_CLUSTER_SYSTEM :> "demo-system") @@
             (ANNOTATION_CAPI_CLUSTER_TAGS :> <<"a", ",", " ", "b">>) ],
       spec |-> [ infrastructureRef |-> UndefinedObject ] ],
     [ metadata |->
         [ name |-> "cluster1", namespace |-> Undefined,
           annotations |-> UndefinedObject ],
       spec |-> [ infrastructureRef |-> [kind |-> Undefined] ] ] >>

\* what one list call can return
ListResponses ==
  { Pick(HubClusters, S) : S \in {T \in SUBSET (1..Len(HubClusters)) : Cardinality(T) <= MaxClusters} }

\* `${cluster.metadata?.name}-kubeconfig`
SecretName(cluster) == Str(cluster.metadata.name) \o "-kubeconfig"

\* cluster.metadata?.namespace || 'default'
SecretNamespace(cluster) == OrStr(cluster.metadata.namespace, "default")

\* the cluster entry of the kubeconfig that Cluster API writes for a cluster
ClusterEntry(name, namespace) ==
  [ name |-> name,
    server |-> "https://" \o namespace \o "/" \o name,
    caData |-> "CA:" \o namespace \o "/" \o name ]

KubeConfigDocument(entries) == [kubeconfig |-> TRUE, clusters |-> entries]

Secret(name, namespace, type, data) ==
  [error |-> FALSE,
   body |-> [metadata |-> [name |-> name, namespace |-> namespace],
             type |-> type, data |-> data]]

\* what client.readNamespacedSecret(name, namespace) can answer
SecretResponses(name, namespace) ==
  { [error |-> TRUE],
    Secret(name, namespace, CAPI_CLUSTER_SECRET_TYPE,
           [value |-> [base64 |-> KubeConfigDocument(<<ClusterEntry(name, namespace)>>)]]),
    Secret(name, namespace, CAPI_CLUSTER_SECRET_TYPE,
           [value |-> [base64 |-> KubeConfigDocument(
              <<ClusterEntry(name, namespace), ClusterEntry("other", namespace)>>)]]),
    Secret(name, namespace, "Opaque",
           [value |-> [base64 |-> KubeConfigDocument(<<ClusterEntry(name, namespace)>>)]]),
    Secret(name, namespace, CAPI_CLUSTER_SECRET_TYPE, UndefinedObject),
    Secret(name, namespace, CAPI_CLUSTER_SECRET_TYPE, [value |-> UndefinedObject]),
    Secret(name, namespace, CAPI_CLUSTER_SECRET_TYPE, [value |-> [base64 |-> EmptyString]]),
    Secret(name, namespace, CAPI_CLUSTER_SECRET_TYPE,
           [value |-> [base64 |-> KubeConfigDocument(<<>>)]]) }

\* the three answers that differ in what the cycle does next: no secret, a
\* secret holding the cluster's kubeconfig, a secret whose value is empty
PlainSecretResponses(name, namespace) ==
  { [error |-> TRUE],
    Secret(name, namespace, CAPI_CLUSTER_SECRET_TYPE,
           [value |-> [base64 |-> KubeConfigDocument(<<ClusterEntry(name, namespace)>>)]]),
    Secret(name, namespace, CAPI_CLUSTER_SECRET_TYPE, [value |-> [base64 |-> EmptyString]]) }

\* provider configurations as readProviderConfigs returns them
ProviderConfigs ==
  { [ id |-> "default", hubClusterName |-> "cluster1", schedule |-> "hourly",
      defaults |-> [ clusterOwner |-> "group:test-team", system |-> Undefined,
                     lifecycle |-> Undefined, tags |-> UndefinedTags ] ],
    [ id |-> "eu-clusters", hubClusterName |-> "eu-cluster", schedule |-> Undefined,
      defaults |-> UndefinedObject ] }

\* -------------------------------------------------- configuration reading
\* The application configuration is
\*   [capi |-> node, clusterLocatorMethods |-> methods]
\* capi being the node at catalog.providers.capi (UndefinedObject when
\* absent) and methods the array at kubernetes.clusterLocatorMethods
\* (UndefinedArray when absent).  A provider node is
\*   [hubClusterName, schedule, defaults, defaultClusterOwner, children]
\* with Undefined for an absent key.  A node without hubClusterName is read
\* key by key, and children lists all its keys in the order the
\* configuration has them, schedule, defaults and defaultClusterOwner
\* included: [key |-> k, node |-> provider node] for a key that holds an
\* object, [key |-> k, string |-> s] for a key that holds a string.  A
\* string array is a sequence of strings, each the sequence of its
\* characters.  A method is
\* [clusters |-> entries or UndefinedArray], an entry is
\* [name, serviceAccountToken, url, caData, skipTLSVerify], skipTLSVerify
\* being <<>> when absent and else <<value>>.  The application configuration
\* is [capi, clusterLocatorMethods, reader], reader saying what the Config
\* implementation does with an empty string.
CLUSTERS_PATH == "kubernetes.clusterLocatorMethods"
DEFAULT_PROVIDER_ID == "default"

\* the name a ConfigReader built from an object gives its source in error
\* messages
CONFIG_CONTEXT == "mock-config"

\* a call that threw an Error with the message / a call that returned
Threw(message) == [threw |-> TRUE, message |-> message]
Returned(value) == [threw |-> FALSE, value |-> value]

\* the error of config.getString / getConfigArray on a missing key
MissingValue(path) == "Missing required config value at '" \o path \o "'"

\* Array.prototype.map with a callback that may throw: the first throw in
\* order ends the call, else the results in order
MapAll(outcomes) ==
  LET thrown == {i \in 1..Len(outcomes) : outcomes[i].threw}
  IN IF thrown = {}
     THEN Returned([i \in 1..Len(outcomes) |-> outcomes[i].value])
     ELSE outcomes[CHOOSE i \in thrown : \A j \in thrown : i <= j]

\* the path of the i-th element (from 0) of the array at path
IndexedPath(path, i) == path \o "[" \o ToString(i) \o "]"

\* Config is the interface of @backstage/config, an external library, and
\* the code does not fix what a string read does with a key that holds the
\* empty string.  A reader hands it back, or rejects it with a type error
\* that names what it got a string or an empty-string; a reader that
\* rejects the empty string rejects a string array that holds one.
HANDS_BACK == "hands back"
Readers == {HANDS_BACK, "string", "empty-string"}

\* The Config of an element of a config array or of the object under a
\* key: its keys, the path the reader carries as the prefix of its error
\* messages, and the reader.
ConfigAt(value, path, reader) == value @@ [path |-> path, reader |-> reader]

\* the key of a Config in error messages: the path the reader carries as
\* its prefix, then the key
KeyPath(config, key) ==
  IF config.path = "" THEN key ELSE config.path \o "." \o key

\* the type error of a string read on a key that holds the empty string,
\* got being what the reader names the value
InvalidString(path, got) ==
  "Invalid type in config for key '" \o path \o "' in '" \o CONFIG_CONTEXT
    \o "', got " \o got \o ", wanted string"

\* config.getOptionalString(key): undefined for an absent key
getOptionalString(config, key) ==
  IF config[key] = "" /\ config.reader # HANDS_BACK
  THEN Threw(InvalidString(KeyPath(config, key), config.reader))
  ELSE Returned(config[key])

\* config.getString(key)
getString(config, key) ==
  IF config[key] = Undefined THEN Threw(MissingValue(KeyPath(config, key)))
  ELSE getOptionalString(config, key)

\* the type error of a string-array read on an array that holds the empty
\* string
InvalidStringArray(path) ==
  "Invalid type in config for key '" \o path \o "' in '" \o CONFIG_CONTEXT
    \o "', got array, wanted string-array"

\* config.getOptionalStringArray(key), a string being its characters
getOptionalStringArray(config, key) ==
  IF /\ config[key] # UndefinedTags
     /\ \E i \in 1..Len(config[key]) : config[key][i] = <<>>
     /\ config.reader # HANDS_BACK
  THEN Threw(InvalidStringArray(KeyPath(config, key)))
  ELSE Returned(config[key])

\* config.getOptionalConfig(key): the Config of the object under the key
getOptionalConfig(config, key) ==
  IF IsUndefined(config[key]) THEN UndefinedObject
  ELSE ConfigAt(config[key], KeyPath(config, key), config.reader)

\* .flatMap(method => method.getOptionalConfigArray('clusters') || []),
\* from the m-th method on
RECURSIVE FlatMapClusters(_, _, _)
FlatMapClusters(methods, m, reader) ==
  IF m > Len(methods) THEN <<>>
  ELSE (IF methods[m].clusters = UndefinedArray THEN <<>>
        ELSE [c \in 1..Len(methods[m].clusters) |->
                ConfigAt(methods[m].clusters[c],
                         IndexedPath(IndexedPath(CLUSTERS_PATH, m - 1) \o ".clusters",
                                     c - 1),
                         reader)])
       \o FlatMapClusters(methods, m + 1, reader)

\* a lookup that hands back the first listed cluster when none matches
getCAPIClusterFromKubernetesConfig_FirstListed(hubName, rootConfig) ==
  IF rootConfig.clusterLocatorMethods = UndefinedArray
  THEN Threw(MissingValue(CLUSTERS_PATH))
  ELSE LET entries == FlatMapClusters(rootConfig.clusterLocatorMethods, 1, rootConfig.reader)
           names == [i \in 1..Len(entries) |-> getString(entries[i], "name")]
           stops == {i \in 1..Len(entries) :
                       IF names[i].threw THEN TRUE ELSE names[i].value = hubName}
           first == CHOOSE i \in stops : \A j \in stops : i <= j
       IN IF stops = {}
          THEN IF entries = <<>>
               THEN Threw("CAPI hub cluster " \o hubName \o " not defined in kubernetes config")
               ELSE Returned(entries[1])
          ELSE IF names[first].threw THEN names[first]
               ELSE Returned(entries[first])

\* find(listCluster => listCluster.getString('name') === hubName) over the
\* clusters of all methods: the scan ends at the first entry whose name is
\* hubName or whose name read throws, on an entry without a name or with a
\* name the reader rejects
getCAPIClusterFromKubernetesConfig(hubName, rootConfig) ==
  IF rootConfig.clusterLocatorMethods = UndefinedArray
  THEN Threw(MissingValue(CLUSTERS_PATH))
  ELSE LET entries == FlatMapClusters(rootConfig.clusterLocatorMethods, 1, rootConfig.reader)
           names == [i \in 1..Len(entries) |-> getString(entries[i], "name")]
           stops == {i \in 1..Len(entries) :
                       IF names[i].threw THEN TRUE ELSE names[i].value = hubName}
           first == CHOOSE i \in stops : \A j \in stops : i <= j
       IN IF stops = {}
          THEN Threw("CAPI hub cluster " \o hubName \o " not defined in kubernetes config")
          ELSE IF names[first].threw THEN names[first]
               ELSE Returned(entries[first])

\* config.getOptionalBoolean('skipTLSVerify') ?? false
SkipTLSVerify(config) ==
  IF config.skipTLSVerify = <<>> THEN FALSE ELSE config.skipTLSVerify[1]

\* The connection context of a locator entry, config being the entry's
\* Config: ambient when the token read is falsy (!clusterToken); with a
\* token, the entry's name, url, skipTLSVerify and caData are read in this
\* order and the cluster, the user 'backstage' and the context are loaded
\* from them.
newKubeConfigFromConfig(config) ==
  LET clusterToken == getOptionalString(config, "serviceAccountToken")
      name == getString(config, "name")
      server == getString(config, "url")
      caData == getOptionalString(config, "caData")
  IN IF clusterToken.threw THEN clusterToken
     ELSE IF clusterToken.value = Undefined \/ clusterToken.value = ""
     THEN Returned([loadedFrom |-> "default", name |-> Undefined,
                    server |-> Undefined, token |-> Undefined])
     ELSE IF name.threw THEN name
     ELSE IF server.threw THEN server
     ELSE IF caData.threw THEN caData
     ELSE Returned([loadedFrom |-> "options", name |-> name.value,
                    server |-> server.value,
                    skipTLSVerify |-> SkipTLSVerify(config),
                    caData |-> caData.value,
                    user |-> "backstage", token |-> clusterToken.value,
                    currentContext |-> name.value])

\* getClusterConfigByName of ./config, as the specification gives the
\* lookup of the Cluster Client Factory: the named cluster is looked up in
\* the list of methods, each possibly holding a list of named clusters, and
\* the lookup fails with ClusterNotFoundError when no entry matches.
getClusterConfigByName(name, rootConfig) ==
  LET entries == IF rootConfig.clusterLocatorMethods = UndefinedArray THEN <<>>
                 ELSE FlatMapClusters(rootConfig.clusterLocatorMethods, 1,
                                      rootConfig.reader)
      matches == {i \in 1..Len(entries) : entries[i].name = name}
  IN IF matches = {} THEN Threw("ClusterNotFoundError")
     ELSE Returned(entries[CHOOSE i \in matches : \A j \in matches : i <= j])

getKubeConfigForCluster(name, rootConfig) ==
  LET clusterConfig == getClusterConfigByName(name, rootConfig)
  IN IF clusterConfig.threw THEN clusterConfig
     ELSE newKubeConfigFromConfig(clusterConfig.value)

\* The provider variant without credential lookups builds its client from
\* the entry itself: the same reads as above, makeApiClient on the result.
getCustomObjectsApi(clusterConfig) ==
  LET clusterToken == getOptionalString(clusterConfig, "serviceAccountToken")
      name == getString(clusterConfig, "name")
      server == getString(clusterConfig, "url")
      caData == getOptionalString(clusterConfig, "caData")
  IN IF clusterToken.threw THEN clusterToken
     ELSE IF clusterToken.value = Undefined \/ clusterToken.value = ""
     THEN Returned([loadedFrom |-> "default", name |-> Undefined,
                    server |-> Undefined, token |-> Undefined])
     ELSE IF name.threw THEN name
     ELSE IF server.threw THEN server
     ELSE IF caData.threw THEN caData
     ELSE Returned([loadedFrom |-> "options", name |-> name.value,
                    server |-> server.value,
                    skipTLSVerify |-> SkipTLSVerify(clusterConfig),
                    caData |-> caData.value,
                    user |-> "backstage", token |-> clusterToken.value,
                    currentContext |-> name.value])

clusterApiClient(hubClusterName, rootConfig) ==
  LET clusterConfig == getCAPIClusterFromKubernetesConfig(hubClusterName, rootConfig)
  IN IF clusterConfig.threw THEN clusterConfig
     ELSE getCustomObjectsApi(clusterConfig.value)

\* parseDefaults(config), config being the Config of the defaults node or
\* undefined: the four optional keys are read in this order, no other key
\* is read
parseDefaults(config) ==
  IF IsUndefined(config) THEN Returned(UndefinedObject)
  ELSE LET clusterOwner == getOptionalString(config, "clusterOwner")
           system == getOptionalString(config, "system")
           lifecycle == getOptionalString(config, "lifecycle")
           tags == getOptionalStringArray(config, "tags")
       IN IF clusterOwner.threw THEN clusterOwner
          ELSE IF system.threw THEN system
          ELSE IF lifecycle.threw THEN lifecycle
          ELSE IF tags.threw THEN tags
          ELSE Returned([ clusterOwner |-> clusterOwner.value,
                          system |-> system.value,
                          lifecycle |-> lifecycle.value,
                          tags |-> tags.value ])

\* readProviderConfig(id, config), config being the Config of the provider
\* node: hubClusterName, the schedule, the defaults
readProviderConfig(id, config) ==
  LET hubClusterName == getString(config, "hubClusterName")
      defaults == parseDefaults(getOptionalConfig(config, "defaults"))
  IN IF hubClusterName.threw THEN hubClusterName
     ELSE IF defaults.threw THEN defaults
     ELSE Returned([ id |-> id,
                     hubClusterName |-> hubClusterName.value,
                     schedule |-> config.schedule,
                     defaults |-> defaults.value ])

\* the error of config.getConfig on a key that holds a string
InvalidType(path) ==
  "Invalid type in config for key '" \o path \o "' in '" \o CONFIG_CONTEXT
    \o "', got string, wanted object"

\* an object without any of the keys a provider node is read for
EmptyNode ==
  [ hubClusterName |-> Undefined, schedule |-> Undefined,
    defaults |-> UndefinedObject, defaultClusterOwner |-> Undefined,
    children |-> <<>> ]

\* whether a key of the capi node holds an object
HoldsObject(entry) == "node" \in DOMAIN entry

\* providersConfig.keys(): the keys of the node in the order the
\* configuration lists them, each with what it holds
Keys(providersConfig) == providersConfig.children

\* the callback of providersConfig.keys().map: getConfig(name), then
\* readProviderConfig
ReadKey(providersConfig, entry) ==
  IF ~HoldsObject(entry)
  THEN Threw(InvalidType(KeyPath(providersConfig, entry.key)))
  ELSE readProviderConfig(entry.key,
                          ConfigAt(entry.node, KeyPath(providersConfig, entry.key),
                                   providersConfig.reader))

\* config.getOptionalConfig('catalog.providers.capi')
ProvidersConfig(rootConfig) ==
  IF IsUndefined(rootConfig.capi) THEN UndefinedObject
  ELSE ConfigAt(rootConfig.capi, "catalog.providers.capi", rootConfig.reader)

\* every provider named after the first key
readProviderConfigs_FirstKey(rootConfig) ==
  LET providersConfig == ProvidersConfig(rootConfig)
  IN IF IsUndefined(providersConfig) THEN Returned(<<>>)
     ELSE IF providersConfig.hubClusterName # Undefined
     THEN MapAll(<<readProviderConfig(DEFAULT_PROVIDER_ID, providersConfig)>>)
     ELSE LET keys == Keys(providersConfig)
          IN MapAll([i \in 1..Len(keys) |->
                       ReadKey(providersConfig, [keys[i] EXCEPT !.key = keys[1].key])])

readProviderConfigs(rootConfig) ==
  LET providersConfig == ProvidersConfig(rootConfig)
  IN IF IsUndefined(providersConfig) THEN Returned(<<>>)
     ELSE IF providersConfig.hubClusterName # Undefined
     THEN MapAll(<<readProviderConfig(DEFAULT_PROVIDER_ID, providersConfig)>>)
     ELSE LET keys == Keys(providersConfig)
          IN MapAll([i \in 1..Len(keys) |-> ReadKey(providersConfig, keys[i])])

\* the callback of providerConfigs.map in fromConfig without its schedule
\* check
NewProvider_NoScheduleCheck(rootConfig, options, providerConfig) ==
  LET kubeConfig == getKubeConfigForCluster(providerConfig.hubClusterName, rootConfig)
  IN IF kubeConfig.threw THEN kubeConfig
     ELSE Returned([ config |-> providerConfig,
                     taskRunner |-> IF options.schedule THEN "options.schedule"
                                    ELSE "scheduler:" \o providerConfig.schedule,
                     kubeConfig |-> kubeConfig.value,
                     connection |-> Undefined ])

\* the callback preferring the provider's configured schedule to the
\* TaskRunner of the options
NewProvider_ConfigFirst(rootConfig, options, providerConfig) ==
  IF ~options.schedule /\ providerConfig.schedule = Undefined
  THEN Threw("No schedule provided neither via code nor config for CAPIClusterProvider:"
             \o providerConfig.id \o ".")
  ELSE LET kubeConfig == getKubeConfigForCluster(providerConfig.hubClusterName, rootConfig)
       IN IF kubeConfig.threw THEN kubeConfig
          ELSE Returned([ config |-> providerConfig,
                          taskRunner |-> IF providerConfig.schedule # Undefined /\ options.scheduler
                                         THEN "scheduler:" \o providerConfig.schedule
                                         ELSE "options.schedule",
                          kubeConfig |-> kubeConfig.value,
                          connection |-> Undefined ])

\* the callback of providerConfigs.map in fromConfig: the schedule check,
\* the task runner, the hub's clients, the constructor
NewProvider(rootConfig, options, providerConfig) ==
  IF ~options.schedule /\ providerConfig.schedule = Undefined
  THEN Threw("No schedule provided neither via code nor config for CAPIClusterProvider:"
             \o providerConfig.id \o ".")
  ELSE LET kubeConfig == getKubeConfigForCluster(providerConfig.hubClusterName, rootConfig)
       IN IF kubeConfig.threw THEN kubeConfig
          ELSE Returned([ config |-> providerConfig,
                          taskRunner |-> IF options.schedule THEN "options.schedule"
                                         ELSE "scheduler:" \o providerConfig.schedule,
                          kubeConfig |-> kubeConfig.value,
                          connection |-> Undefined ])

\* the same callback in the variant without credential lookups: one client
NewProviderWithoutKubeConfig(rootConfig, options, providerConfig) ==
  IF ~options.schedule /\ providerConfig.schedule = Undefined
  THEN Threw("No schedule provided neither via code nor config for CAPIClusterProvider:"
             \o providerConfig.id \o ".")
  ELSE LET client == clusterApiClient(providerConfig.hubClusterName, rootConfig)
       IN IF client.threw THEN client
          ELSE Returned([ config |-> providerConfig,
                          taskRunner |-> IF options.schedule THEN "options.schedule"
                                         ELSE "scheduler:" \o providerConfig.schedule,
                          client |-> client.value,
                          connection |-> Undefined ])

\* fromConfig of the variant without credential lookups
fromConfigWithoutKubeConfig(rootConfig, options) ==
  LET providerConfigs == readProviderConfigs(rootConfig)
  IN IF providerConfigs.threw THEN providerConfigs
     ELSE IF ~options.schedule /\ ~options.scheduler
     THEN Threw("Either schedule or scheduler must be provided.")
     ELSE MapAll([i \in 1..Len(providerConfigs.value) |->
                    NewProviderWithoutKubeConfig(rootConfig, options,
                                                 providerConfigs.value[i])])

\* CAPIClusterProvider.fromConfig(rootConfig, options); options says
\* whether a TaskRunner (schedule) and a PluginTaskScheduler (scheduler) are
\* supplied
fromConfig(rootConfig, options) ==
  LET providerConfigs == readProviderConfigs(rootConfig)
  IN IF providerConfigs.threw THEN providerConfigs
     ELSE IF ~options.schedule /\ ~options.scheduler
     THEN Threw("Either schedule or scheduler must be provided.")
     ELSE MapAll([i \in 1..Len(providerConfigs.value) |->
                    NewProvider(rootConfig, options, providerConfigs.value[i])])

\* ------------------------------------------------------------------ state
VARIABLES
  config,         \* this.config
  connection,     \* this.connection
  registered,     \* the units of work handed to taskRunner.run, in order
  run,            \* the refresh cycles, one record per slot: position, fetched
                  \* clusters, lookup results, the calls and log lines it made,
                  \* the lookups whose secret did not decode (decodeErrors) or
                  \* was not of the CAPI secret type (untyped)
  catalog,        \* what the catalog holds for the provider's location key
  errorsLogged,   \* number of logger.error calls of the schedule wrapper
  overlapAllowed, \* whether a cycle may start while another is in flight
  env,            \* what the hub and the catalog can answer: the lists the list
                  \* call may return, whether every kind of secret response
                  \* occurs, whether the list call and applyMutation may reject
  mapIn,          \* input of the entity mapping applied on its own
  mapOut,         \* its result
  rootConfig,     \* the application configuration handed to fromConfig
  options,        \* the options handed to fromConfig
  providerConfigs, \* what readProviderConfigs(rootConfig) gave
  providers,      \* what fromConfig(rootConfig, options) gave
  router,         \* the status router as createRouter built it
  listCalls,      \* the GET /status requests whose list call is outstanding
  reply           \* the answer to a GET /status that is being sent

configVars == <<rootConfig, options, providerConfigs, providers>>
statusVars == <<router, listCalls, reply>>
envVars == <<overlapAllowed, env>>

vars == <<config, connection, registered, run, catalog, errorsLogged,
          envVars, mapIn, mapOut, configVars, statusVars>>

Runs == {1, 2}

Pending == [pending |-> TRUE]
IsPending(result) == "pending" \in DOMAIN result

IdleRun ==
  [ pc |-> "idle", via |-> "none", clusters |-> <<>>, results |-> <<>>,
    submitted |-> UndefinedObject, outcome |-> "none", raised |-> FALSE,
    decodeErrors |-> {}, untyped |-> {}, nList |-> 0, nRead |-> 0, nApply |-> 0 ]

NoCatalog == [known |-> FALSE, entities |-> <<>>]

\* the hub and the catalog unconstrained: any list, any secret response,
\* and calls that may reject
AnyEnv == [lists |-> ListResponses, allSecrets |-> TRUE, faults |-> TRUE]

\* what client.readNamespacedSecret(name, namespace) can answer now
Secrets(name, namespace) ==
  IF env.allSecrets THEN SecretResponses(name, namespace)
  ELSE PlainSecretResponses(name, namespace)

Min(a, b) == IF a <= b THEN a ELSE b

InitProvider ==
  /\ config \in ProviderConfigs
  /\ connection = Undefined
  /\ registered = <<>>
  /\ run = [r \in Runs |-> IdleRun]
  /\ catalog = NoCatalog
  /\ errorsLogged = 0

\* nothing was read from an application configuration
NoConfig ==
  /\ rootConfig = UndefinedObject
  /\ options = UndefinedObject
  /\ providerConfigs = UndefinedObject
  /\ providers = UndefinedObject

\* no status router was built
NoRouter ==
  /\ router = UndefinedObject
  /\ listCalls = {}
  /\ reply = UndefinedObject

Init ==
  /\ InitProvider
  /\ overlapAllowed = FALSE
  /\ env = AnyEnv
  /\ mapIn = UndefinedObject
  /\ mapOut = UndefinedObject
  /\ NoConfig
  /\ NoRouter

\* ---------------------------------------------------------------- connect
TaskId_ProviderName(cfg) == getProviderName(cfg)

\* `${this.getProviderName()}:refresh`
TaskId(cfg) == getProviderName(cfg) \o ":refresh"

\* a connect that hands the unit of work over without storing the
\* connection
Connect_ScheduleOnly ==
  /\ Len(registered) < MaxConnects
  /\ registered' = Append(registered, [id |-> TaskId(config)])
  /\ UNCHANGED <<config, connection, run, catalog, errorsLogged, envVars, mapIn, mapOut, configVars, statusVars>>

\* connect: bind the connection, then scheduleFn() hands {id, fn} to the
\* task runner
Connect ==
  /\ Len(registered) < MaxConnects
  /\ connection' = "connection"
  /\ registered' = Append(registered, [id |-> TaskId(config)])
  /\ UNCHANGED <<config, run, catalog, errorsLogged, envVars, mapIn, mapOut, configVars, statusVars>>

\* ---------------------------------------------------------------- refresh
\* the wrapper without its try/catch
Raised_NoCatch(via, outcome) == outcome # "ok"

\* Whether the invoked function rejects to its caller: refresh called
\* directly rejects with the cycle's error, fn of the unit of work catches
\* it and logs it.
Raised(via, outcome) ==
  IF via = "task" THEN FALSE ELSE outcome # "ok"

Finished(rec, outcome) ==
  [rec EXCEPT !.pc = "idle", !.clusters = <<>>, !.results = <<>>,
              !.submitted = UndefinedObject, !.decodeErrors = {},
              !.untyped = {},
              !.outcome = outcome,
              !.raised = Raised(rec.via, outcome)]

Logged(via, outcome) ==
  IF via = "task" /\ outcome # "ok"
  THEN Min(errorsLogged + 1, MaxErrorLog) ELSE errorsLogged

\* refresh without the connection check
StartRefresh_NoCheck(r, via) ==
  /\ run[r].pc = "idle"
  /\ IF overlapAllowed THEN TRUE ELSE r = 1
  /\ run' = [run EXCEPT ![r] = [IdleRun EXCEPT !.via = via, !.pc = "listing", !.nList = 1]]
  /\ UNCHANGED <<config, connection, registered, catalog, errorsLogged,
                 envVars, mapIn, mapOut, configVars, statusVars>>

\* the start of refresh up to the list call
StartRefresh(r, via) ==
  /\ run[r].pc = "idle"
  /\ IF overlapAllowed THEN TRUE ELSE r = 1
  /\ LET started == [IdleRun EXCEPT !.via = via]
     IN IF connection = Undefined
        THEN /\ run' = [run EXCEPT ![r] = Finished(started, "NotInitialized")]
             /\ errorsLogged' = Logged(via, "NotInitialized")
        ELSE /\ run' = [run EXCEPT ![r] = [started EXCEPT !.pc = "listing", !.nList = 1]]
             /\ errorsLogged' = errorsLogged
  /\ UNCHANGED <<config, connection, registered, catalog, envVars, mapIn, mapOut, configVars, statusVars>>

\* a caller invokes provider.refresh(logger) itself
DirectRefresh(r) == StartRefresh(r, "direct")

\* the task runner invokes fn of a unit of work it was handed
TaskTick(r) ==
  /\ registered # <<>>
  /\ StartRefresh(r, "task")

\* getCAPIClusters resolves: one secret read is dispatched per cluster
ListOk(r) ==
  /\ run[r].pc = "listing"
  /\ \E items \in env.lists :
       run' = [run EXCEPT ![r] =
                 [@ EXCEPT !.pc = "lookups", !.clusters = items,
                           !.results = [i \in 1..Len(items) |-> Pending],
                           !.nRead = Len(items)]]
  /\ UNCHANGED <<config, connection, registered, catalog, errorsLogged,
                 envVars, mapIn, mapOut, configVars, statusVars>>

\* a failed list call taken for an empty list and submitted before failing
ListFails_SubmitsEmpty(r) ==
  /\ run[r].pc = "listing"
  /\ env.faults
  /\ run' = [run EXCEPT ![r] = Finished([@ EXCEPT !.nApply = 1], "ListError")]
  /\ catalog' = [known |-> TRUE, entities |-> <<>>]
  /\ errorsLogged' = Logged(run[r].via, "ListError")
  /\ UNCHANGED <<config, connection, registered, envVars, mapIn, mapOut, configVars, statusVars>>

\* a cycle that answers a rejected list call by calling it again
ListFails_Retry(r) ==
  /\ run[r].pc = "listing"
  /\ env.faults
  /\ run' = [run EXCEPT ![r] = [@ EXCEPT !.nList = Min(@ + 1, 2)]]
  /\ UNCHANGED <<config, connection, registered, catalog, errorsLogged,
                 envVars, mapIn, mapOut, configVars, statusVars>>

\* getCAPIClusters rejects: refresh rejects with that error
ListFails(r) ==
  /\ run[r].pc = "listing"
  /\ env.faults
  /\ run' = [run EXCEPT ![r] = Finished(@, "ListError")]
  /\ errorsLogged' = Logged(run[r].via, "ListError")
  /\ UNCHANGED <<config, connection, registered, catalog, envVars, mapIn, mapOut, configVars, statusVars>>

\* one secret read settles
LookupSettles(r, i) ==
  /\ run[r].pc = "lookups"
  /\ i \in 1..Len(run[r].results)
  /\ IsPending(run[r].results[i])
  /\ \E response \in Secrets(SecretName(run[r].clusters[i]),
                             SecretNamespace(run[r].clusters[i])) :
       run' = [run EXCEPT ![r].results[i] = LookupResult(response),
                          ![r].decodeErrors =
                             IF ~response.error /\ LoadFails(response.body)
                             THEN @ \cup {i} ELSE @,
                          ![r].untyped =
                             IF ~response.error /\ response.body.type # CAPI_CLUSTER_SECRET_TYPE
                             THEN @ \cup {i} ELSE @]
  /\ UNCHANGED <<config, connection, registered, catalog, errorsLogged,
                 envVars, mapIn, mapOut, configVars, statusVars>>

\* a cycle that maps and submits as soon as one lookup has settled, the
\* unsettled ones counting as absent
MapAndSubmit_NoJoin(r) ==
  /\ run[r].pc = "lookups"
  /\ \E i \in 1..Len(run[r].results) : ~IsPending(run[r].results[i])
  /\ LET settled == [i \in 1..Len(run[r].results) |->
                       IF IsPending(run[r].results[i]) THEN UndefinedObject
                       ELSE run[r].results[i]]
     IN IF ResourcesThrow(run[r].clusters, settled)
        THEN /\ run' = [run EXCEPT ![r] = Finished(@, "TypeError")]
             /\ errorsLogged' = Logged(run[r].via, "TypeError")
        ELSE /\ run' = [run EXCEPT ![r] =
                          [@ EXCEPT !.pc = "applying",
                                    !.submitted = Mutation(config, run[r].clusters, settled),
                                    !.nApply = 1]]
             /\ errorsLogged' = errorsLogged
  /\ UNCHANGED <<config, connection, registered, catalog, envVars, mapIn, mapOut, configVars, statusVars>>

\* a provider that adds what it maps to what earlier cycles had applied
MapAndSubmit_Accumulates(r) ==
  /\ run[r].pc = "lookups"
  /\ \A i \in 1..Len(run[r].results) : ~IsPending(run[r].results[i])
  /\ IF ResourcesThrow(run[r].clusters, run[r].results)
     THEN /\ run' = [run EXCEPT ![r] = Finished(@, "TypeError")]
          /\ errorsLogged' = Logged(run[r].via, "TypeError")
     ELSE /\ run' = [run EXCEPT ![r] =
                       [@ EXCEPT !.pc = "applying",
                                 !.submitted =
                                    [ type |-> "full",
                                      entities |-> catalog.entities \o
                                        Mutation(config, run[r].clusters, run[r].results).entities ],
                                 !.nApply = 1]]
          /\ errorsLogged' = errorsLogged
  /\ UNCHANGED <<config, connection, registered, catalog, envVars, mapIn, mapOut, configVars, statusVars>>

\* a cycle that skips applyMutation when there is nothing to submit
MapAndSubmit_SkipEmpty(r) ==
  /\ run[r].pc = "lookups"
  /\ \A i \in 1..Len(run[r].results) : ~IsPending(run[r].results[i])
  /\ IF ResourcesThrow(run[r].clusters, run[r].results)
     THEN /\ run' = [run EXCEPT ![r] = Finished(@, "TypeError")]
          /\ errorsLogged' = Logged(run[r].via, "TypeError")
     ELSE IF run[r].clusters = <<>>
     THEN /\ run' = [run EXCEPT ![r] = Finished(@, "ok")]
          /\ errorsLogged' = errorsLogged
     ELSE /\ run' = [run EXCEPT ![r] =
                       [@ EXCEPT !.pc = "applying",
                                 !.submitted = Mutation(config, run[r].clusters, run[r].results),
                                 !.nApply = 1]]
          /\ errorsLogged' = errorsLogged
  /\ UNCHANGED <<config, connection, registered, catalog, envVars, mapIn, mapOut, configVars, statusVars>>

\* Promise.all resolved: map every cluster and call applyMutation
MapAndSubmit(r) ==
  /\ run[r].pc = "lookups"
  /\ \A i \in 1..Len(run[r].results) : ~IsPending(run[r].results[i])
  /\ IF ResourcesThrow(run[r].clusters, run[r].results)
     THEN /\ run' = [run EXCEPT ![r] = Finished(@, "TypeError")]
          /\ errorsLogged' = Logged(run[r].via, "TypeError")
     ELSE /\ run' = [run EXCEPT ![r] =
                       [@ EXCEPT !.pc = "applying",
                                 !.submitted = Mutation(config, run[r].clusters, run[r].results),
                                 !.nApply = 1]]
          /\ errorsLogged' = errorsLogged
  /\ UNCHANGED <<config, connection, registered, catalog, envVars, mapIn, mapOut, configVars, statusVars>>

\* a catalog that keeps what it holds when a mutation arrives while another
\* cycle is in flight
ApplyResolves_FirstWins(r) ==
  /\ run[r].pc = "applying"
  /\ catalog' = IF catalog.known /\ \E o \in Runs \ {r} : run[o].pc # "idle"
                THEN catalog
                ELSE [known |-> TRUE, entities |-> run[r].submitted.entities]
  /\ run' = [run EXCEPT ![r] = Finished(@, "ok")]
  /\ UNCHANGED <<config, connection, registered, errorsLogged, envVars, mapIn, mapOut, configVars, statusVars>>

\* applyMutation resolves: the catalog replaces what it holds for the key
ApplyResolves(r) ==
  /\ run[r].pc = "applying"
  /\ catalog' = [known |-> TRUE, entities |-> run[r].submitted.entities]
  /\ run' = [run EXCEPT ![r] = Finished(@, "ok")]
  /\ UNCHANGED <<config, connection, registered, errorsLogged, envVars, mapIn, mapOut, configVars, statusVars>>

\* a provider that drops its connection when applyMutation rejects
ApplyRejects_Disconnects(r) ==
  /\ run[r].pc = "applying"
  /\ env.faults
  /\ run' = [run EXCEPT ![r] = Finished(@, "ApplyError")]
  /\ errorsLogged' = Logged(run[r].via, "ApplyError")
  /\ connection' = Undefined
  /\ UNCHANGED <<config, registered, catalog, envVars, mapIn, mapOut, configVars, statusVars>>

\* applyMutation rejects: refresh rejects with that error
ApplyRejects(r) ==
  /\ run[r].pc = "applying"
  /\ env.faults
  /\ run' = [run EXCEPT ![r] = Finished(@, "ApplyError")]
  /\ errorsLogged' = Logged(run[r].via, "ApplyError")
  /\ UNCHANGED <<config, connection, registered, catalog, envVars, mapIn, mapOut, configVars, statusVars>>

Next ==
  \/ Connect
  \/ \E r \in Runs : DirectRefresh(r)
  \/ \E r \in Runs : TaskTick(r)
  \/ \E r \in Runs : ListOk(r)
  \/ \E r \in Runs : ListFails(r)
  \/ \E r \in Runs, i \in 1..(MaxClusters + 1) : LookupSettles(r, i)
  \/ \E r \in Runs : MapAndSubmit(r)
  \/ \E r \in Runs : ApplyResolves(r)
  \/ \E r \in Runs : ApplyRejects(r)

Spec == Init /\ [][Next]_vars

\* ------------------------------------------------------ overlapping cycles
\* The task runner's scope and timeout decide whether fn can be invoked
\* while an earlier invocation is still in flight; refresh itself holds no
\* lock.  Here a second cycle may start at any point of the first, and to
\* keep the interleavings of two cycles enumerable each list call returns
\* at most one cluster and each secret read one of the plain answers.
ShortLists == {items \in ListResponses : Len(items) <= 1}

InitOverlap ==
  /\ InitProvider
  /\ overlapAllowed = TRUE
  /\ env = [lists |-> ShortLists, allSecrets |-> FALSE, faults |-> TRUE]
  /\ mapIn = UndefinedObject
  /\ mapOut = UndefinedObject
  /\ NoConfig
  /\ NoRouter

SpecOverlap == InitOverlap /\ [][Next]_vars

\* ------------------------------------------------ a hub that settles
\* The scheduler keeps invoking fn of the unit of work it was handed, and
\* every call a cycle awaits is answered.  At some point the hub's cluster
\* set stops changing and the list call and applyMutation stop rejecting;
\* what a secret read answers stays open.  List calls return at most one
\* cluster, as in the overlapping cycles.
InitLive ==
  /\ InitProvider
  /\ overlapAllowed = FALSE
  /\ env = [lists |-> ShortLists, allSecrets |-> FALSE, faults |-> TRUE]
  /\ mapIn = UndefinedObject
  /\ mapOut = UndefinedObject
  /\ NoConfig
  /\ NoRouter

\* from now on the list call returns this list and no call rejects
HubSettles ==
  /\ env.faults
  /\ \E items \in env.lists :
       env' = [env EXCEPT !.lists = {items}, !.faults = FALSE]
  /\ UNCHANGED <<config, connection, registered, run, catalog, errorsLogged,
                 overlapAllowed, mapIn, mapOut, configVars, statusVars>>

NextLive == Next \/ HubSettles

\* the task runner invokes fn again and again, and awaited calls settle
Fairness ==
  \A r \in Runs :
    /\ WF_vars(TaskTick(r))
    /\ WF_vars(ListOk(r))
    /\ WF_vars(\E i \in 1..(MaxClusters + 1) : LookupSettles(r, i))
    /\ WF_vars(MapAndSubmit(r))
    /\ WF_vars(ApplyResolves(r))

SpecLive == InitLive /\ [][NextLive]_vars /\ Fairness

\* ----------------------------------------------- the mapping on its own
\* Inputs of Resource drawn from bounded sets: the entity mapping applied to
\* one cluster, one lookup result and one provider configuration.
TagAlphabet == {"a", "b", ",", " ", "\r"}

TagValues == UNION { [1..k -> TagAlphabet] : k \in 0..MaxTagLen }

\* the tags annotation 'tag1, tag2,tag3'
TagExample ==
  <<"t", "a", "g", "1", ",", " ", "t", "a", "g", "2", ",", "t", "a", "g", "3">>

MkAnnotations(owner, lifecycle, system, description, tags) ==
  LET keys ==
        (IF owner # Undefined THEN {ANNOTATION_CAPI_CLUSTER_OWNER} ELSE {}) \cup
        (IF lifecycle # Undefined THEN {ANNOTATION_CAPI_CLUSTER_LIFECYCLE} ELSE {}) \cup
        (IF system # Undefined THEN {ANNOTATION_CAPI_CLUSTER_SYSTEM} ELSE {}) \cup
        (IF description # Undefined THEN {ANNOTATION_CAPI_CLUSTER_DESCRIPTION} ELSE {}) \cup
        (IF tags # UndefinedChars THEN {ANNOTATION_CAPI_CLUSTER_TAGS} ELSE {})
  IN [k \in keys |->
        CASE k = ANNOTATION_CAPI_CLUSTER_OWNER -> owner
          [] k = ANNOTATION_CAPI_CLUSTER_LIFECYCLE -> lifecycle
          [] k = ANNOTATION_CAPI_CLUSTER_SYSTEM -> system
          [] k = ANNOTATION_CAPI_CLUSTER_DESCRIPTION -> description
          [] k = ANNOTATION_CAPI_CLUSTER_TAGS -> tags]

MkCluster(annotations, infrastructureRef) ==
  [ metadata |-> [name |-> "test-cluster", namespace |-> "default",
                  annotations |-> annotations],
    spec |-> [infrastructureRef |-> infrastructureRef] ]

MapClusters ==
  { MkCluster(MkAnnotations(o, l, s, d, t), [kind |-> "AWSManagedCluster"]) :
      o \in {Undefined, "", "group:pet-managers"},
      l \in {Undefined, "", "production"},
      s \in {Undefined, "", "demo-system"},
      d \in {Undefined, "This is the production Cluster"},
      t \in {UndefinedChars, <<>>, TagExample} }
  \cup
  { MkCluster(MkAnnotations(Undefined, Undefined, Undefined, Undefined, t),
              [kind |-> "AWSManagedCluster"]) : t \in TagValues }
  \cup
  { MkCluster(UndefinedObject, ref) :
      ref \in {UndefinedObject, [kind |-> Undefined], [kind |-> "AWSManagedCluster"]} }

\* the defaults as a reader that rejects the empty string gives them: a
\* configured default is a non-empty string
MapConfigs ==
  { [ id |-> "default", hubClusterName |-> "cluster1", schedule |-> "hourly",
      defaults |-> UndefinedObject ] }
  \cup
  { [ id |-> "default", hubClusterName |-> "cluster1", schedule |-> "hourly",
      defaults |-> [clusterOwner |-> o, lifecycle |-> l, system |-> s, tags |-> t] ] :
      o \in {Undefined, "group:test-team"},
      l \in {Undefined, "staging"},
      s \in {Undefined, "test-system"},
      t \in {UndefinedTags, <<>>, << <<"c", "a", "p", "i">> >>} }

MapKubeConfigs ==
  { UndefinedObject,
    NewKubeConfig,
    [clusters |-> <<ClusterEntry("test-cluster-kubeconfig", "default")>>] }

InitMap ==
  /\ config \in MapConfigs
  /\ connection = Undefined
  /\ registered = <<>>
  /\ run = [r \in Runs |-> IdleRun]
  /\ catalog = NoCatalog
  /\ errorsLogged = 0
  /\ overlapAllowed = FALSE
  /\ env = AnyEnv
  /\ mapIn \in [cluster : MapClusters, kubeConfig : MapKubeConfigs]
  /\ mapOut = UndefinedObject
  /\ NoConfig
  /\ NoRouter

\* one evaluation of the body of items.map(cluster => ...)
MapCluster ==
  /\ IsUndefined(mapOut)
  /\ ~IsUndefined(mapIn)
  /\ mapOut' =
       IF ResourceThrows(mapIn.kubeConfig)
       THEN [threw |-> TRUE]
       ELSE [threw |-> FALSE,
             resource |-> Resource(config, mapIn.cluster, mapIn.kubeConfig)]
  /\ UNCHANGED <<config, connection, registered, run, catalog, errorsLogged,
                 envVars, mapIn, configVars, statusVars>>

NextMap == MapCluster

SpecMap == InitMap /\ [][NextMap]_vars

\* ---------------------------------------- construction from configuration
\* fromConfig and readProviderConfigs applied to application configurations
\* drawn from bounded sets, and the mapping done by a provider that
\* fromConfig returned.
ProviderKeys == <<"eu-clusters", "us-clusters", "ap-clusters">>

Node(hubClusterName, schedule, defaults, defaultClusterOwner, children) ==
  [ hubClusterName |-> hubClusterName, schedule |-> schedule,
    defaults |-> defaults, defaultClusterOwner |-> defaultClusterOwner,
    children |-> children ]

DefaultsNodes ==
  { UndefinedObject,
    [ clusterOwner |-> "group:cluster-admins", system |-> Undefined,
      lifecycle |-> Undefined, tags |-> UndefinedTags ] }

\* defaults that hold an empty string
EmptyStringDefaults ==
  { [ clusterOwner |-> "", system |-> Undefined,
      lifecycle |-> Undefined, tags |-> UndefinedTags ],
    [ clusterOwner |-> "group:cluster-admins", system |-> "test-system",
      lifecycle |-> "", tags |-> UndefinedTags ],
    [ clusterOwner |-> "group:cluster-admins", system |-> Undefined,
      lifecycle |-> Undefined, tags |-> << <<"c", "a", "p", "i">>, <<>> >> ] }

\* provider nodes that hold an empty string
EmptyStringNodes ==
  { Node("", "hourly", UndefinedObject, Undefined, <<>>) }
  \cup { Node("cluster1", "hourly", d, Undefined, <<>>) : d \in EmptyStringDefaults }

\* the single-provider form: hubClusterName at the top level of the node
SingleNodes ==
  { Node(h, s, d, o, <<>>) :
      h \in {"cluster1", "eu-cluster"}, s \in {Undefined, "hourly"},
      d \in DefaultsNodes, o \in {Undefined, "group:eu-admins"} }

\* the nodes under the keys of the multi-provider form
ChildNodes ==
  { Node(h, s, UndefinedObject,
         IF h = "eu-cluster" THEN "group:eu-admins" ELSE Undefined, <<>>) :
      h \in {Undefined, "cluster1", "eu-cluster"}, s \in {Undefined, "hourly"} }

KeyPool == {ProviderKeys[i] : i \in 1..Min(MaxProviders, Len(ProviderKeys))}

\* the keys of a node, in the order the configuration lists them
KeyLists ==
  UNION { {ks \in [1..n -> KeyPool] : \A i, j \in 1..n : i # j => ks[i] # ks[j]} :
            n \in 0..Min(MaxProviders, Len(ProviderKeys)) }

\* a node without hubClusterName that has the keys children
MultiNode(children) ==
  Node(Undefined, Undefined, UndefinedObject, Undefined, children)

\* a schedule or a defaultClusterOwner next to the provider keys
NamedKeys ==
  { <<>>,
    << [key |-> "schedule", node |-> EmptyNode] >>,
    << [key |-> "defaultClusterOwner", string |-> "group:eu-admins"] >> }

\* the multi-provider form: no hubClusterName at the top level, and a
\* schedule or a defaultClusterOwner possibly before or after the provider
\* keys
MultiNodes ==
  UNION { UNION { { MultiNode(named \o [i \in 1..Len(ks) |-> [key |-> ks[i], node |-> ns[i]]]),
                    MultiNode([i \in 1..Len(ks) |-> [key |-> ks[i], node |-> ns[i]]] \o named) } :
                    ns \in [1..Len(ks) -> ChildNodes], named \in NamedKeys } :
            ks \in KeyLists }
  \cup { MultiNode(<<[key |-> "eu-clusters", node |-> n]>>) : n \in EmptyStringNodes }

CapiNodes == {UndefinedObject} \cup SingleNodes \cup EmptyStringNodes \cup MultiNodes

\* an entry with a CA and a choice on TLS verification
EntryWithCA(name, serviceAccountToken, url, caData, skipTLSVerify) ==
  [ name |-> name, serviceAccountToken |-> serviceAccountToken, url |-> url,
    caData |-> caData, skipTLSVerify |-> skipTLSVerify ]

Entry(name, serviceAccountToken, url) ==
  EntryWithCA(name, serviceAccountToken, url, Undefined, <<>>)

\* what kubernetes.clusterLocatorMethods may hold
Locators ==
  { UndefinedArray,
    <<>>,
    << [clusters |-> UndefinedArray] >>,
    << [clusters |-> <<>>],
       [clusters |-> <<Entry("cluster1", "TOKEN", "http://cluster.example.com")>>] >>,
    << [clusters |-> <<Entry("cluster1", Undefined, Undefined),
                       Entry("eu-cluster", "TOKEN", Undefined)>>] >>,
    << [clusters |-> <<Entry(Undefined, "TOKEN", "http://cluster.example.com"),
                       Entry("cluster1", "TOKEN", "http://cluster.example.com")>>] >>,
    << [clusters |-> <<Entry("", "TOKEN", "http://cluster.example.com"),
                       Entry("cluster1", "TOKEN", "http://cluster.example.com")>>] >>,
    << [clusters |-> <<Entry("cluster1", "", "http://cluster.example.com"),
                       EntryWithCA("eu-cluster", "TOKEN", "http://eu.example.com",
                                   "", <<>>)>>] >>,
    << [clusters |-> <<Entry("cluster1", "TOKEN", "http://cluster.example.com")>>],
       [clusters |-> <<EntryWithCA("eu-cluster", "TOKEN", "http://eu.example.com",
                                   "TESTING-CA", <<TRUE>>)>>] >> }

\* some string of the locator is empty
HasEmptyString(methods) ==
  /\ methods # UndefinedArray
  /\ \E m \in 1..Len(methods) :
       /\ methods[m].clusters # UndefinedArray
       /\ \E c \in 1..Len(methods[m].clusters) :
            \E key \in {"name", "serviceAccountToken", "url", "caData"} :
              methods[m].clusters[c][key] = ""

\* some string a provider is read for is empty in the node
NodeHasEmptyString(node) ==
  \/ node.hubClusterName = ""
  \/ /\ ~IsUndefined(node.defaults)
     /\ \/ \E key \in {"clusterOwner", "system", "lifecycle"} : node.defaults[key] = ""
        \/ /\ node.defaults.tags # UndefinedTags
           /\ \E i \in 1..Len(node.defaults.tags) : node.defaults.tags[i] = <<>>

\* some string of the capi node is empty
CapiHasEmptyString(capi) ==
  /\ ~IsUndefined(capi)
  /\ \/ NodeHasEmptyString(capi)
     \/ \E i \in 1..Len(capi.children) :
          IF HoldsObject(capi.children[i])
          THEN NodeHasEmptyString(capi.children[i].node)
          ELSE capi.children[i].string = ""

\* the application configurations; the readers differ on an empty string
\* only, so a configuration without one is read by one of them
RootConfigs ==
  { c \in [capi : CapiNodes, clusterLocatorMethods : Locators, reader : Readers] :
      \/ c.reader = HANDS_BACK
      \/ HasEmptyString(c.clusterLocatorMethods)
      \/ CapiHasEmptyString(c.capi) }

\* the locator is a list of methods of named clusters, as the
\* specification gives the registry
NamedLocator(methods) ==
  /\ methods # UndefinedArray
  /\ \A m \in 1..Len(methods) :
       \/ methods[m].clusters = UndefinedArray
       \/ \A c \in 1..Len(methods[m].clusters) :
            /\ methods[m].clusters[c].name # Undefined
            /\ methods[m].clusters[c].name # ""

RegistryRootConfigs == {c \in RootConfigs : NamedLocator(c.clusterLocatorMethods)}

ProviderOptions == [schedule : BOOLEAN, scheduler : BOOLEAN]

\* the clusters a constructed provider is given to map
ConfigClusters ==
  { MkCluster(UndefinedObject, [kind |-> "AWSManagedCluster"]),
    MkCluster(MkAnnotations("group:pet-managers", Undefined, Undefined, Undefined,
                            UndefinedChars),
              [kind |-> "AWSManagedCluster"]) }

InitConfig ==
  /\ config = UndefinedObject
  /\ connection = Undefined
  /\ registered = <<>>
  /\ run = [r \in Runs |-> IdleRun]
  /\ catalog = NoCatalog
  /\ errorsLogged = 0
  /\ overlapAllowed = FALSE
  /\ env = AnyEnv
  /\ mapIn = UndefinedObject
  /\ mapOut = UndefinedObject
  /\ rootConfig \in RegistryRootConfigs
  /\ options \in ProviderOptions
  /\ providerConfigs = UndefinedObject
  /\ providers = UndefinedObject
  /\ NoRouter

ReadProviderConfigs ==
  /\ IsUndefined(providerConfigs)
  /\ providerConfigs' = readProviderConfigs(rootConfig)
  /\ UNCHANGED <<config, connection, registered, run, catalog, errorsLogged,
                 envVars, mapIn, mapOut, rootConfig, options, providers,
                 statusVars>>

FromConfig ==
  /\ IsUndefined(providers)
  /\ providers' = fromConfig(rootConfig, options)
  /\ UNCHANGED <<config, connection, registered, run, catalog, errorsLogged,
                 envVars, mapIn, mapOut, rootConfig, options, providerConfigs,
                 statusVars>>

\* the i-th provider that fromConfig returned maps a cluster without
\* credentials
ProviderMaps(i) ==
  /\ ~IsUndefined(providers)
  /\ ~providers.threw
  /\ i \in 1..Len(providers.value)
  /\ IsUndefined(config)
  /\ config' = providers.value[i].config
  /\ \E cluster \in ConfigClusters :
       /\ mapIn' = [cluster |-> cluster, kubeConfig |-> UndefinedObject]
       /\ mapOut' = [threw |-> FALSE,
                     resource |-> Resource(providers.value[i].config, cluster,
                                           UndefinedObject)]
  /\ UNCHANGED <<connection, registered, run, catalog, errorsLogged,
                 envVars, configVars, statusVars>>

NextConfig ==
  \/ ReadProviderConfigs
  \/ FromConfig
  \/ \E i \in 1..(MaxProviders + 1) : ProviderMaps(i)

SpecConfig == InitConfig /\ [][NextConfig]_vars

\* The variant without credential lookups: fromConfig on any application
\* configuration, the catalog connecting the providers it returned, and
\* their refresh cycles.  A cycle is one slot's record with two more
\* fields: the provider it runs for (its index in what fromConfig returned)
\* and the cycles started so far.  The cycles of all providers share one
\* slot, so that one is in flight at a time.
IdleRunWithoutKubeConfig == IdleRun @@ [provider |-> 0, cycles |-> 0]

\* what the hub's list call returns when it resolves: its first cluster
OneCluster == {<<HubClusters[1]>>}

\* the position of a key among ProviderKeys, 0 for another key
KeyIndex(key) ==
  IF \E i \in 1..Len(ProviderKeys) : ProviderKeys[i] = key
  THEN CHOOSE i \in 1..Len(ProviderKeys) : ProviderKeys[i] = key
  ELSE 0

\* The order of the provider keys among themselves decides nothing in
\* fromConfig but which provider comes first, and the nodes under the keys
\* vary by position: the configurations whose keys stand in the order of
\* ProviderKeys.
KeysInOrder(capi) ==
  \/ IsUndefined(capi)
  \/ \A i, j \in 1..Len(capi.children) :
       i < j => KeyIndex(capi.children[i].key) <= KeyIndex(capi.children[j].key)
                  \/ KeyIndex(capi.children[i].key) = 0
                  \/ KeyIndex(capi.children[j].key) = 0

OrderedRootConfigs == {c \in RootConfigs : KeysInOrder(c.capi)}

InitWithoutKubeConfig ==
  /\ config = UndefinedObject
  /\ connection = Undefined
  /\ registered = <<>>
  /\ run = [r \in Runs |-> IdleRunWithoutKubeConfig]
  /\ catalog = NoCatalog
  /\ errorsLogged = 0
  /\ overlapAllowed = FALSE
  /\ env = [lists |-> OneCluster, allSecrets |-> FALSE, faults |-> TRUE]
  /\ mapIn = UndefinedObject
  /\ mapOut = UndefinedObject
  /\ rootConfig \in OrderedRootConfigs
  /\ options \in ProviderOptions
  /\ providerConfigs = UndefinedObject
  /\ providers = UndefinedObject
  /\ NoRouter

FromConfigWithoutKubeConfig ==
  /\ IsUndefined(providers)
  /\ providers' = fromConfigWithoutKubeConfig(rootConfig, options)
  /\ UNCHANGED <<config, connection, registered, run, catalog, errorsLogged,
                 envVars, mapIn, mapOut, rootConfig, options, providerConfigs,
                 statusVars>>

\* fromConfig returned and i is the index of one of its providers
IsProvider(i) ==
  /\ ~IsUndefined(providers)
  /\ IF providers.threw THEN FALSE ELSE i \in 1..Len(providers.value)

\* the catalog connects the i-th provider that fromConfig returned: connect
\* binds the connection and hands the unit of work to the task runner
ProviderConnects(i) ==
  /\ IsProvider(i)
  /\ Len(registered) < MaxConnects
  /\ providers' = [providers EXCEPT !.value[i].connection = "connection"]
  /\ registered' = Append(registered, [id |-> TaskId(providers.value[i].config)])
  /\ UNCHANGED <<config, connection, run, catalog, errorsLogged, envVars, mapIn,
                 mapOut, rootConfig, options, providerConfigs, statusVars>>

\* the start of the i-th provider's refresh up to the list call
StartRefreshWithoutKubeConfig(i, via) ==
  /\ run[1].pc = "idle"
  /\ run[1].cycles < MaxCycles
  /\ LET started == [IdleRunWithoutKubeConfig EXCEPT
                       !.via = via, !.provider = i, !.cycles = run[1].cycles + 1]
     IN IF providers.value[i].connection = Undefined
        THEN /\ run' = [run EXCEPT ![1] = Finished(started, "NotInitialized")]
             /\ errorsLogged' = Logged(via, "NotInitialized")
        ELSE /\ run' = [run EXCEPT ![1] = [started EXCEPT !.pc = "listing", !.nList = 1]]
             /\ errorsLogged' = errorsLogged
  /\ UNCHANGED <<config, connection, registered, catalog, envVars, mapIn, mapOut,
                 configVars, statusVars>>

\* a caller invokes refresh(logger) of the i-th provider itself
DirectRefreshWithoutKubeConfig(i) ==
  /\ IsProvider(i)
  /\ StartRefreshWithoutKubeConfig(i, "direct")

\* the task runner invokes fn of a unit of work the i-th provider handed it
TaskTickWithoutKubeConfig(i) ==
  /\ IsProvider(i)
  /\ \E k \in 1..Len(registered) :
       registered[k].id = TaskId(providers.value[i].config)
  /\ StartRefreshWithoutKubeConfig(i, "task")

\* getCAPIClusters resolves: every cluster is mapped and applyMutation is
\* called
ListOkWithoutKubeConfig ==
  /\ run[1].pc = "listing"
  /\ \E items \in env.lists :
       run' = [run EXCEPT ![1] =
                 [@ EXCEPT !.pc = "applying", !.clusters = items,
                           !.submitted =
                              MutationWithoutKubeConfig(
                                providers.value[run[1].provider].config, items),
                           !.nApply = 1]]
  /\ UNCHANGED <<config, connection, registered, catalog, errorsLogged,
                 envVars, mapIn, mapOut, configVars, statusVars>>

\* applyMutation resolves: the catalog replaces what it holds for the
\* provider's location key and keeps what it holds for the other keys
ApplyResolvesWithoutKubeConfig ==
  /\ run[1].pc = "applying"
  /\ LET key == getProviderName(providers.value[run[1].provider].config)
         Others(entity) == entity.locationKey # key
     IN catalog' = [known |-> TRUE,
                    entities |-> SelectSeq(catalog.entities, Others)
                                   \o run[1].submitted.entities]
  /\ run' = [run EXCEPT ![1] = Finished(@, "ok")]
  /\ UNCHANGED <<config, connection, registered, errorsLogged, envVars, mapIn,
                 mapOut, configVars, statusVars>>

\* ListFails and ApplyRejects: a rejected list call or applyMutation ends
\* the cycle as it does in the provider with credential lookups
NextWithoutKubeConfig ==
  \/ FromConfigWithoutKubeConfig
  \/ \E i \in 1..(MaxProviders + 1) : ProviderConnects(i)
  \/ \E i \in 1..(MaxProviders + 1) : DirectRefreshWithoutKubeConfig(i)
  \/ \E i \in 1..(MaxProviders + 1) : TaskTickWithoutKubeConfig(i)
  \/ ListOkWithoutKubeConfig
  \/ ListFails(1)
  \/ ApplyResolvesWithoutKubeConfig
  \/ ApplyRejects(1)

SpecWithoutKubeConfig == InitWithoutKubeConfig /\ [][NextWithoutKubeConfig]_vars

\* ------------------------------------------------------ the status router
\* capi-clusters-backend: GET /status lists the hub's clusters and answers
\* with one status record per cluster.  A Cluster is here
\*   [metadata |-> [name, namespace] or UndefinedObject,
\*    status |-> a record with some of phase, controlPlaneReady and
\*               infrastructureReady, or UndefinedObject]
\* cluster.status?.[key]
StatusField(cluster, key, undef) ==
  IF IsUndefined(cluster.status) THEN undef
  ELSE IF key \in DOMAIN cluster.status THEN cluster.status[key] ELSE undef

\* cluster.metadata?.[key] ?? ''
MetadataField(cluster, key) ==
  IF IsUndefined(cluster.metadata) THEN ""
  ELSE IF cluster.metadata[key] = Undefined THEN "" ELSE cluster.metadata[key]

\* a conversion that takes a cluster without a flag for ready
parseClusterStatus_ReadyByDefault(sourceCluster, cluster) ==
  [ name |-> MetadataField(cluster, "name"),
    namespace |-> MetadataField(cluster, "namespace"),
    cluster |-> sourceCluster,
    phase |-> StatusField(cluster, "phase", Undefined),
    controlPlaneReady |-> StatusField(cluster, "controlPlaneReady", TRUE),
    infrastructureReady |-> StatusField(cluster, "infrastructureReady", TRUE) ]

\* phase is undefined when absent, and JSON leaves an undefined key out
parseClusterStatus(sourceCluster, cluster) ==
  [ name |-> MetadataField(cluster, "name"),
    namespace |-> MetadataField(cluster, "namespace"),
    cluster |-> sourceCluster,
    phase |-> StatusField(cluster, "phase", Undefined),
    controlPlaneReady |-> StatusField(cluster, "controlPlaneReady", FALSE),
    infrastructureReady |-> StatusField(cluster, "infrastructureReady", FALSE) ]

\* a status with the given keys; a flag is <<>> when absent, else <<value>>
MkStatus(phase, controlPlaneReady, infrastructureReady) ==
  LET keys ==
        (IF phase # Undefined THEN {"phase"} ELSE {}) \cup
        (IF controlPlaneReady # <<>> THEN {"controlPlaneReady"} ELSE {}) \cup
        (IF infrastructureReady # <<>> THEN {"infrastructureReady"} ELSE {})
  IN [k \in keys |->
        CASE k = "phase" -> phase
          [] k = "controlPlaneReady" -> controlPlaneReady[1]
          [] k = "infrastructureReady" -> infrastructureReady[1]]

\* controlPlaneReady and infrastructureReady of a status, each of them
\* absent, true and false in some pair
FlagPairs ==
  { << <<>>, <<>> >>, << <<TRUE>>, <<FALSE>> >>, << <<FALSE>>, <<TRUE>> >>,
    << <<>>, <<TRUE>> >>, << <<TRUE>>, <<>> >> }

StatusClusters ==
  [ metadata : { UndefinedObject,
                 [name |-> "cluster1", namespace |-> "clusters"],
                 [name |-> "cluster2", namespace |-> Undefined] },
    status : {UndefinedObject} \cup
             { MkStatus(p, f[1], f[2]) : p \in {Undefined, "provisioning"},
                                         f \in FlagPairs } ]

\* what the hub's list call can answer to the router
StatusListResponses ==
  {[error |-> TRUE]} \cup
  { [error |-> FALSE, items |-> items] :
      items \in UNION { [1..n -> StatusClusters] : n \in 0..MaxClusters } }

\* createRouter read the source hub name from the configuration
InitStatus ==
  /\ config = UndefinedObject
  /\ connection = Undefined
  /\ registered = <<>>
  /\ run = [r \in Runs |-> IdleRun]
  /\ catalog = NoCatalog
  /\ errorsLogged = 0
  /\ overlapAllowed = FALSE
  /\ env = AnyEnv
  /\ mapIn = UndefinedObject
  /\ mapOut = UndefinedObject
  /\ NoConfig
  /\ router \in [sourceClusterName : {"test-cluster", "cluster1"}]
  /\ listCalls = {}
  /\ reply = UndefinedObject

\* the requests that can be in flight at once
Requests == 1..MaxRequests

\* GET /status, request i: the handler logs, sends the list call and returns
\* the promise; nothing is answered yet, and further requests can be taken
\* while the call is outstanding
GetStatus(i) ==
  /\ i \notin listCalls
  /\ IF IsUndefined(reply) THEN TRUE ELSE reply.request # i
  /\ listCalls' = listCalls \cup {i}
  /\ UNCHANGED <<config, connection, registered, run, catalog, errorsLogged,
                 envVars, mapIn, mapOut, configVars, router, reply>>

\* the list call of request i settles, in any order among the outstanding
\* calls: the then-callback sends one record per item; a failed call
\* rejects the handler's promise and the error handler answers 500.  One
\* response is written at a time.
ListSettles(i) ==
  /\ i \in listCalls
  /\ IsUndefined(reply)
  /\ listCalls' = listCalls \ {i}
  /\ \E response \in StatusListResponses :
       reply' =
         IF response.error
         THEN [request |-> i, status |-> 500, listed |-> <<>>, body |-> <<>>]
         ELSE [request |-> i, status |-> 200, listed |-> response.items,
               body |-> [k \in 1..Len(response.items) |->
                           parseClusterStatus(router.sourceClusterName,
                                              response.items[k])]]
  /\ UNCHANGED <<config, connection, registered, run, catalog, errorsLogged,
                 envVars, mapIn, mapOut, configVars, router>>

\* the client has the answer
ReplyReceived ==
  /\ ~IsUndefined(reply)
  /\ reply' = UndefinedObject
  /\ UNCHANGED <<config, connection, registered, run, catalog, errorsLogged,
                 envVars, mapIn, mapOut, configVars, router, listCalls>>

NextStatus ==
  \/ \E i \in Requests : GetStatus(i)
  \/ \E i \in Requests : ListSettles(i)
  \/ ReplyReceived

SpecStatus == InitStatus /\ [][NextStatus]_vars

\* ------------------------------------------------------------- properties
\* an annotation counts as carried when its value is not undefined: a key
\* whose value is undefined is dropped when the entity is serialised
Carries(entity, key) == entity.metadata.annotations[key] # Undefined

ApiServerKeys ==
  { ANNOTATION_KUBERNETES_API_SERVER,
    ANNOTATION_KUBERNETES_API_SERVER_CA,
    ANNOTATION_KUBERNETES_AUTH_PROVIDER }

\* C1: a refresh cycle whose list call fails never calls applyMutation:
\* every step of a cycle up to and including the failure of its list call
\* leaves the catalog's entity set as it was, and the finished cycle has
\* made no applyMutation call.
C1_FailedListLeavesCatalog ==
  [][\A r \in Runs :
       ( /\ run'[r] # run[r]
         /\ \/ run'[r].pc = "listing"
            \/ run'[r].pc = "idle" /\ run'[r].outcome = "ListError" )
       => (catalog' = catalog /\ run'[r].nApply = 0)]_vars

\* a populated catalog after a cycle whose list call failed
C1_Witness ==
  \E r \in Runs :
    /\ run[r].pc = "idle" /\ run[r].outcome = "ListError"
    /\ run[r].nList = 1 /\ run[r].nApply = 0
    /\ catalog.known /\ catalog.entities # <<>>

\* C2: the function handed to the task runner never raises, whatever the
\* cycle raised, and once it has completed the task runner can invoke it
\* again.
C2_ScheduledFnNeverRaises ==
  \A r \in Runs :
    run[r].via = "task" =>
      /\ ~run[r].raised
      /\ run[r].pc = "idle" => ENABLED TaskTick(r)

\* a scheduled cycle that ran to the end after an earlier one had failed
C2_Witness ==
  \E r \in Runs :
    /\ run[r].via = "task" /\ run[r].pc = "idle" /\ run[r].outcome = "ok"
    /\ errorsLogged >= 1

\* C3: refresh on a provider that was never connected fails with
\* 'Not initialized' before any list call, secret read or applyMutation.
C3_NotInitializedBeforeAnyCall ==
  [][\A r \in Runs :
       (run'[r] # run[r] /\ run[r].pc = "idle" /\ connection = Undefined)
       => /\ run'[r].pc = "idle"
          /\ run'[r].outcome = "NotInitialized"
          /\ run'[r].raised
          /\ run'[r].nList = 0 /\ run'[r].nRead = 0 /\ run'[r].nApply = 0
          /\ catalog' = catalog]_vars

\* a direct refresh that failed with 'Not initialized'
C3_Witness ==
  \E r \in Runs :
    /\ connection = Undefined
    /\ run[r].outcome = "NotInitialized" /\ run[r].raised
    /\ run[r].nList = 0

\* the cluster entry of the kubeconfig that belongs to a fetched cluster
OwnEntry(cluster) == ClusterEntry(SecretName(cluster), SecretNamespace(cluster))

\* C4: an entity submitted for a cluster whose credentials resolved to
\* absent carries none of the three annotations API-server URL, API-server
\* CA data and auth-provider.
C4_AbsentCredentialsOmitAnnotations ==
  \A r \in Runs :
    run[r].pc = "applying" =>
      \A i \in 1..Len(run[r].clusters) :
        IsUndefined(run[r].results[i]) =>
          \A k \in ApiServerKeys : ~Carries(run[r].submitted.entities[i].entity, k)

\* C5: an entity submitted for a cluster whose kubeconfig secret was read
\* and decoded carries the server and the CA data of that kubeconfig's
\* cluster entry and the auth provider 'oidc'.
C5_ResolvedCredentialsAnnotate ==
  \A r \in Runs :
    run[r].pc = "applying" =>
      \A i \in 1..Len(run[r].clusters) :
        ~IsUndefined(run[r].results[i]) =>
          LET annotations == run[r].submitted.entities[i].entity.metadata.annotations
              entry == OwnEntry(run[r].clusters[i])
          IN /\ annotations[ANNOTATION_KUBERNETES_API_SERVER] = entry.server
             /\ annotations[ANNOTATION_KUBERNETES_API_SERVER_CA] = entry.caData
             /\ annotations[ANNOTATION_KUBERNETES_AUTH_PROVIDER] = "oidc"

\* two clusters of the same name submitted, each with its own kubeconfig
C5_Witness ==
  \E r \in Runs :
    /\ run[r].pc = "applying"
    /\ Len(run[r].clusters) = 2
    /\ run[r].clusters[1].metadata.name = run[r].clusters[2].metadata.name
    /\ \A i \in 1..2 :
         /\ ~IsUndefined(run[r].results[i])
         /\ run[r].submitted.entities[i].entity.metadata.annotations[ANNOTATION_KUBERNETES_API_SERVER]
              = OwnEntry(run[r].clusters[i]).server

\* C6: a cycle that fetched several clusters and had a credential lookup
\* fail submits one full mutation with an entity per fetched cluster, in
\* which exactly the entities of the failed lookups lack the API-server
\* annotations and the others carry their own.
C6_FailedLookupDegradesOnlyItsEntity ==
  \A r \in Runs :
    ( /\ run[r].pc = "applying"
      /\ Len(run[r].clusters) >= 2
      /\ \E i \in 1..Len(run[r].clusters) : IsUndefined(run[r].results[i]) )
    => /\ run[r].submitted.type = "full"
       /\ Len(run[r].submitted.entities) = Len(run[r].clusters)
       /\ \A i \in 1..Len(run[r].clusters) :
            LET entity == run[r].submitted.entities[i].entity
            IN IF IsUndefined(run[r].results[i])
               THEN \A k \in ApiServerKeys : ~Carries(entity, k)
               ELSE /\ entity.metadata.annotations[ANNOTATION_KUBERNETES_API_SERVER]
                         = OwnEntry(run[r].clusters[i]).server
                    /\ entity.metadata.annotations[ANNOTATION_KUBERNETES_API_SERVER_CA]
                         = OwnEntry(run[r].clusters[i]).caData

\* C7: a cycle in which a kubeconfig secret was found but could not be
\* decoded goes on to applyMutation, and the entity of that cluster is
\* submitted without the API-server annotations.
C7_DecodeFailureDegradesToAbsent ==
  [][\A r \in Runs :
       ( /\ run[r].pc = "lookups"
         /\ run'[r].pc # "lookups"
         /\ run[r].decodeErrors # {}
         /\ \A i \in 1..Len(run[r].results) :
              \/ IsUndefined(run[r].results[i])
              \/ i \in run[r].decodeErrors
              \/ Len(run[r].results[i].clusters) > 0 )
       => /\ run'[r].pc = "applying"
          /\ \A i \in run[r].decodeErrors :
               \A k \in ApiServerKeys :
                 ~Carries(run'[r].submitted.entities[i].entity, k)]_vars

\* C8: a cycle whose list call returned no clusters calls applyMutation
\* once, with type 'full' and an empty entity list.
C8_EmptyListIsSubmitted ==
  [][\A r \in Runs :
       /\ ( run[r].pc = "lookups" /\ run[r].clusters = <<>> /\ run'[r] # run[r] )
          => /\ run'[r].pc = "applying"
             /\ run'[r].submitted = [type |-> "full", entities |-> <<>>]
             /\ run'[r].nApply = 1
       /\ ( run[r].pc = "applying" /\ run'[r] # run[r] )
          => /\ run'[r].pc = "idle"
             /\ run'[r].nApply = 1]_vars

\* the empty full mutation applied to a catalog that held entities
C8_Witness ==
  \E r \in Runs :
    /\ run[r].pc = "applying"
    /\ run[r].clusters = <<>>
    /\ run[r].submitted = [type |-> "full", entities |-> <<>>]
    /\ catalog.known /\ catalog.entities # <<>>

\* the first of: the annotation's value when it wins, the provider default
\* when one is configured, the fallback
Precedence(wins, value, default, undef, fallback) ==
  IF wins THEN value ELSE IF default # undef THEN default ELSE fallback

\* the positions of the commas of a tags annotation
Commas(value) == {i \in 1..Len(value) : value[i] = ","}

\* the position of the k-th comma; 0 before the first, Len + 1 after the last
NthComma(value, k) ==
  IF k = 0 THEN 0
  ELSE IF k > Cardinality(Commas(value)) THEN Len(value) + 1
  ELSE CHOOSE i \in Commas(value) :
         Cardinality({j \in Commas(value) : j <= i}) = k

\* a token without its leading and trailing whitespace
Stripped(token) ==
  LET kept == {i \in 1..Len(token) : token[i] \notin Whitespace}
  IN IF kept = {} THEN <<>>
     ELSE SubSeq(token, CHOOSE i \in kept : \A j \in kept : i <= j,
                        CHOOSE i \in kept : \A j \in kept : j <= i)

\* the comma-separated tokens of a tags annotation, in order, stripped
Tokens(value) ==
  [k \in 1..(Cardinality(Commas(value)) + 1) |->
     Stripped(SubSeq(value, NthComma(value, k - 1) + 1, NthComma(value, k) - 1))]

Mapped == ~IsUndefined(mapOut) /\ ~mapOut.threw

\* C9 as stated: each of owner, lifecycle, system and tags is the cluster
\* annotation's value whenever the annotation is present, else the provider
\* default when one is configured, else 'guest' for owner and unset for
\* the others.
C9_PresentAnnotationWins ==
  Mapped =>
    LET cluster == mapIn.cluster
        entity == mapOut.resource
        owner == Annotation(cluster, ANNOTATION_CAPI_CLUSTER_OWNER, Undefined)
        lifecycle == Annotation(cluster, ANNOTATION_CAPI_CLUSTER_LIFECYCLE, Undefined)
        system == Annotation(cluster, ANNOTATION_CAPI_CLUSTER_SYSTEM, Undefined)
        tags == Annotation(cluster, ANNOTATION_CAPI_CLUSTER_TAGS, UndefinedChars)
    IN /\ entity.spec.owner =
            Precedence(owner # Undefined, owner,
                       Default(config, "clusterOwner", Undefined), Undefined, "guest")
       /\ entity.spec.lifecycle =
            Precedence(lifecycle # Undefined, lifecycle,
                       Default(config, "lifecycle", Undefined), Undefined, Undefined)
       /\ entity.spec.system =
            Precedence(system # Undefined, system,
                       Default(config, "system", Undefined), Undefined, Undefined)
       /\ entity.metadata.tags =
            Precedence(tags # UndefinedChars, Tokens(tags),
                       Default(config, "tags", UndefinedTags), UndefinedTags, UndefinedTags)

\* C9: owner, lifecycle and system are the cluster annotation's value when
\* the annotation is present and not the empty string, and tags are the
\* annotation's tokens whenever the annotation is present; otherwise each
\* is the provider default when one is configured, else 'guest' for owner
\* and unset for lifecycle, system and tags.
C9_NonEmptyAnnotationWins ==
  Mapped =>
    LET cluster == mapIn.cluster
        entity == mapOut.resource
        owner == Annotation(cluster, ANNOTATION_CAPI_CLUSTER_OWNER, Undefined)
        lifecycle == Annotation(cluster, ANNOTATION_CAPI_CLUSTER_LIFECYCLE, Undefined)
        system == Annotation(cluster, ANNOTATION_CAPI_CLUSTER_SYSTEM, Undefined)
        tags == Annotation(cluster, ANNOTATION_CAPI_CLUSTER_TAGS, UndefinedChars)
    IN /\ entity.spec.owner =
            Precedence(owner \notin {Undefined, ""}, owner,
                       Default(config, "clusterOwner", Undefined), Undefined, "guest")
       /\ entity.spec.lifecycle =
            Precedence(lifecycle \notin {Undefined, ""}, lifecycle,
                       Default(config, "lifecycle", Undefined), Undefined, Undefined)
       /\ entity.spec.system =
            Precedence(system \notin {Undefined, ""}, system,
                       Default(config, "system", Undefined), Undefined, Undefined)
       /\ entity.metadata.tags =
            Precedence(tags # UndefinedChars, Tokens(tags),
                       Default(config, "tags", UndefinedTags), UndefinedTags, UndefinedTags)

\* an empty owner annotation gives way to the configured default while a
\* non-empty lifecycle annotation overrides its configured default
C9_Witness ==
  /\ Mapped
  /\ Annotation(mapIn.cluster, ANNOTATION_CAPI_CLUSTER_OWNER, Undefined) = ""
  /\ Default(config, "clusterOwner", Undefined) = "group:test-team"
  /\ mapOut.resource.spec.owner = "group:test-team"
  /\ Annotation(mapIn.cluster, ANNOTATION_CAPI_CLUSTER_LIFECYCLE, Undefined) = "production"
  /\ Default(config, "lifecycle", Undefined) = "staging"
  /\ mapOut.resource.spec.lifecycle = "production"

\* C10: the tags mapped for a cluster that carries a tags annotation are
\* the comma-separated tokens of the annotation in order, each without its
\* surrounding whitespace, whatever tags the provider defaults hold.
C10_TagsAreTrimmedTokens ==
  ( /\ Mapped
    /\ Annotation(mapIn.cluster, ANNOTATION_CAPI_CLUSTER_TAGS, UndefinedChars) # UndefinedChars )
  => mapOut.resource.metadata.tags =
       Tokens(Annotation(mapIn.cluster, ANNOTATION_CAPI_CLUSTER_TAGS, UndefinedChars))

\* 'tag1, tag2,tag3' mapped under configured default tags
C10_Witness ==
  /\ Mapped
  /\ Annotation(mapIn.cluster, ANNOTATION_CAPI_CLUSTER_TAGS, UndefinedChars) = TagExample
  /\ Default(config, "tags", UndefinedTags) = << <<"c", "a", "p", "i">> >>
  /\ mapOut.resource.metadata.tags =
       << <<"t", "a", "g", "1">>, <<"t", "a", "g", "2">>, <<"t", "a", "g", "3">> >>

\* C11: every submitted mutation holds exactly one entry per cluster the
\* cycle's list call returned, in list order, each named after its cluster
\* verbatim, so two fetched clusters of one name give two entries of that
\* name under the same locationKey.
C11_OneEntryPerFetchedCluster ==
  \A r \in Runs :
    run[r].pc = "applying" =>
      /\ Len(run[r].submitted.entities) = Len(run[r].clusters)
      /\ \A i \in 1..Len(run[r].clusters) :
           run[r].submitted.entities[i].entity.metadata.name
             = run[r].clusters[i].metadata.name
      /\ \A i, j \in 1..Len(run[r].clusters) :
           run[r].clusters[i].metadata.name = run[r].clusters[j].metadata.name
             => run[r].submitted.entities[i].locationKey
                  = run[r].submitted.entities[j].locationKey

\* two entries named cluster1 under one locationKey reach the catalog
C11_Witness ==
  /\ catalog.known
  /\ Len(catalog.entities) = 2
  /\ catalog.entities[1].entity.metadata.name = "cluster1"
  /\ catalog.entities[2].entity.metadata.name = "cluster1"
  /\ catalog.entities[1].locationKey = catalog.entities[2].locationKey

\* C12: every entry of a submitted mutation has the locationKey
\* 'CAPIClusterProvider:<id>', its entity carries the location and the
\* origin-location annotation equal to that string and the provider-kind
\* annotation equal to infrastructureRef.kind, '' when the reference or its
\* kind is absent; a cycle whose lookups gave usable or absent credentials
\* always gets to submit, whatever the references are.
C12_IdentityAnnotations ==
  [][\A r \in Runs :
       /\ run'[r].pc = "applying" =>
            \A i \in 1..Len(run'[r].clusters) :
              LET entry == run'[r].submitted.entities[i]
                  ref == run'[r].clusters[i].spec.infrastructureRef
                  identity == "CAPIClusterProvider:" \o config'.id
              IN /\ entry.locationKey = identity
                 /\ entry.entity.metadata.annotations[ANNOTATION_LOCATION] = identity
                 /\ entry.entity.metadata.annotations[ANNOTATION_ORIGIN_LOCATION] = identity
                 /\ entry.entity.metadata.annotations[ANNOTATION_CAPI_PROVIDER] =
                      IF IsUndefined(ref) THEN ""
                      ELSE IF ref.kind = Undefined THEN "" ELSE ref.kind
       /\ ( /\ run[r].pc = "lookups"
            /\ run'[r].pc # "lookups"
            /\ \A i \in 1..Len(run[r].results) :
                 \/ IsUndefined(run[r].results[i])
                 \/ Len(run[r].results[i].clusters) > 0 )
          => run'[r].pc = "applying"]_vars

\* clusters without a reference and without a kind submitted with the
\* provider-kind annotation ''
C12_Witness ==
  \E r \in Runs :
    /\ run[r].pc = "applying"
    /\ Len(run[r].clusters) = 2
    /\ IsUndefined(run[r].clusters[1].spec.infrastructureRef)
    /\ ~IsUndefined(run[r].clusters[2].spec.infrastructureRef)
    /\ run[r].clusters[2].spec.infrastructureRef.kind = Undefined
    /\ \A i \in 1..2 :
         run[r].submitted.entities[i].entity.metadata.annotations[ANNOTATION_CAPI_PROVIDER] = ""

\* C16: connect binds the connection and hands the task runner one unit of
\* work with the id 'CAPIClusterProvider:<id>:refresh'; nothing is handed
\* to the task runner while the provider is not connected.
C16_ConnectRegistersRefreshTask ==
  [][/\ connection = Undefined => registered = <<>>
     /\ connection' = Undefined => registered' = <<>>
     /\ (connection' # connection \/ registered' # registered)
          => /\ connection' # Undefined
             /\ registered' =
                  Append(registered,
                         [id |-> "CAPIClusterProvider:" \o config.id \o ":refresh"])]_vars

C16_Witness ==
  /\ connection # Undefined
  /\ registered = <<[id |-> "CAPIClusterProvider:eu-clusters:refresh"]>>

\* C20: applyMutation is called only after every credential lookup of the
\* cycle has settled: no mutation is mapped or submitted while a lookup of
\* the same cycle is pending, and a step never settles a lookup of a cycle
\* that has submitted.
C20_LookupsJoinedBeforeSubmit ==
  [][\A r \in Runs :
       /\ run'[r].nApply > run[r].nApply
            => \A i \in 1..Len(run[r].results) : ~IsPending(run[r].results[i])
       /\ run'[r].pc = "applying"
            => /\ Len(run'[r].results) = Len(run'[r].clusters)
               /\ \A i \in 1..Len(run'[r].results) : ~IsPending(run'[r].results[i])
       /\ run[r].pc = "applying" => run'[r].results \in {run[r].results, <<>>}]_vars

\* two lookups settled in the opposite order of the list, then submitted
C20_Witness ==
  \E r \in Runs :
    /\ run[r].pc = "applying"
    /\ run[r].nRead = 2
    /\ run[r].nApply = 1
    /\ IsUndefined(run[r].results[1])
    /\ ~IsUndefined(run[r].results[2])

\* C18: a cluster whose companion secret exists without the type marker
\* 'cluster.x-k8s.io/secret' has absent credentials, and its entity is
\* submitted without the API-server annotations.
C18_UntypedSecretIsAbsent ==
  \A r \in Runs :
    run[r].pc = "applying" =>
      \A i \in run[r].untyped :
        /\ IsUndefined(run[r].results[i])
        /\ \A k \in ApiServerKeys : ~Carries(run[r].submitted.entities[i].entity, k)

\* the error of fromConfig that names a provider
ScheduleError(id) ==
  "No schedule provided neither via code nor config for CAPIClusterProvider:"
    \o id \o "."

\* the error of the hub lookup
NotDefinedError(hubName) ==
  "CAPI hub cluster " \o hubName \o " not defined in kubernetes config"

\* the provider configurations in rootConfig that have no schedule
Unscheduled ==
  {i \in 1..Len(readProviderConfigs(rootConfig).value) :
     readProviderConfigs(rootConfig).value[i].schedule = Undefined}

\* fromConfig was called on a configuration whose providers could be read
FromConfigCalled ==
  /\ ~IsUndefined(providers)
  /\ ~readProviderConfigs(rootConfig).threw

\* C13 as stated: when no TaskRunner is supplied in the options, fromConfig
\* fails for every configured provider without a schedule with an error
\* that cites that provider's id, and returns no provider instance.
C13_NoScheduleCitesProvider ==
  (FromConfigCalled /\ ~options.schedule) =>
    \A i \in Unscheduled :
      /\ providers.threw
      /\ providers.message = ScheduleError(readProviderConfigs(rootConfig).value[i].id)

\* C13: when no TaskRunner is supplied in the options and some configured
\* provider has no schedule, fromConfig fails and returns no provider
\* instance; with a scheduler supplied the error cites the id of the first
\* provider without a schedule, provided every provider before it could be
\* constructed; with no scheduler either, the error is 'Either schedule or
\* scheduler must be provided.', which cites no provider.
C13_NoScheduleFailsConstruction ==
  (FromConfigCalled /\ ~options.schedule /\ Unscheduled # {}) =>
    LET providerConfigs_ == readProviderConfigs(rootConfig).value
        k == CHOOSE i \in Unscheduled : \A j \in Unscheduled : i <= j
    IN /\ providers.threw
       /\ ~options.scheduler
            => providers.message = "Either schedule or scheduler must be provided."
       /\ ( /\ options.scheduler
            /\ \A j \in 1..(k - 1) :
                 ~getKubeConfigForCluster(providerConfigs_[j].hubClusterName,
                                          rootConfig).threw )
            => providers.message = ScheduleError(providerConfigs_[k].id)

\* the second of two providers is the one without a schedule
C13_Witness ==
  /\ FromConfigCalled
  /\ ~options.schedule /\ options.scheduler
  /\ ~IsUndefined(rootConfig.capi)
  /\ Len(rootConfig.capi.children) = 2
  /\ rootConfig.capi.children[1].node.schedule = "hourly"
  /\ rootConfig.capi.children[2].key = "eu-clusters"
  /\ providers.threw
  /\ providers.message = ScheduleError("eu-clusters")

\* no cluster entry of any locator method is named hubName
Unlisted(hubName) ==
  \/ rootConfig.clusterLocatorMethods = UndefinedArray
  \/ \A m \in 1..Len(rootConfig.clusterLocatorMethods) :
       LET method == rootConfig.clusterLocatorMethods[m]
       IN \/ method.clusters = UndefinedArray
          \/ \A e \in 1..Len(method.clusters) : method.clusters[e].name # hubName

\* kubernetes.clusterLocatorMethods is present and the name of each of its
\* entries can be read: it is there, and not the empty string when the
\* reader rejects that
LocatorWellFormed ==
  /\ rootConfig.clusterLocatorMethods # UndefinedArray
  /\ \A m \in 1..Len(rootConfig.clusterLocatorMethods) :
       LET method == rootConfig.clusterLocatorMethods[m]
       IN \/ method.clusters = UndefinedArray
          \/ \A e \in 1..Len(method.clusters) :
               /\ method.clusters[e].name # Undefined
               /\ method.clusters[e].name = "" => rootConfig.reader = HANDS_BACK

\* the configured providers whose hubClusterName no locator entry has
UnknownHubs ==
  {i \in 1..Len(readProviderConfigs(rootConfig).value) :
     Unlisted(readProviderConfigs(rootConfig).value[i].hubClusterName)}

\* C14 as stated: when the hubClusterName of a configured provider is the
\* name of no cluster entry of any method of kubernetes.clusterLocatorMethods,
\* fromConfig fails with the error 'CAPI hub cluster <name> not defined in
\* kubernetes config' of such a provider and returns no provider.
C14_UnknownHubCitesNotDefined ==
  ( /\ FromConfigCalled
    /\ rootConfig.clusterLocatorMethods # UndefinedArray
    /\ UnknownHubs # {} )
  => /\ providers.threw
     /\ \E i \in UnknownHubs :
          providers.message
            = NotDefinedError(readProviderConfigs(rootConfig).value[i].hubClusterName)

\* C14: when the hubClusterName of a configured provider is the name of no
\* cluster entry of any locator method, fromConfig throws and returns no
\* provider, so that there is no provider to connect and no unit of work is
\* handed to a task runner.  The error is 'CAPI hub cluster <name> not
\* defined in kubernetes config' for the first such provider when the
\* locator is present and the name of each of its entries can be read, the
\* options hold a TaskRunner or they hold a scheduler and that provider and
\* each one before it has a schedule, and each provider before it could be
\* constructed; otherwise it is the error of the earlier failure.
C14_UnknownHubFailsConstruction ==
  LET read == readProviderConfigs(rootConfig)
      providerConfigs_ == read.value
      unknown == {i \in 1..Len(providerConfigs_) :
                    Unlisted(providerConfigs_[i].hubClusterName)}
      k == CHOOSE i \in unknown : \A j \in unknown : i <= j
  IN (~IsUndefined(providers) /\ ~read.threw /\ unknown # {}) =>
       /\ providers.threw
       /\ registered = <<>>
       /\ ( /\ LocatorWellFormed
            /\ options.schedule \/ options.scheduler
            /\ \A j \in 1..k : options.schedule \/ providerConfigs_[j].schedule # Undefined
            /\ \A j \in 1..(k - 1) :
                 ~clusterApiClient(providerConfigs_[j].hubClusterName, rootConfig).threw )
            => providers.message = NotDefinedError(providerConfigs_[k].hubClusterName)

\* the second provider names a hub that a locator with a cluster-less
\* method does not list
C14_Witness ==
  /\ FromConfigCalled
  /\ Len(rootConfig.clusterLocatorMethods) = 2
  /\ rootConfig.clusterLocatorMethods[1].clusters = <<>>
  /\ ~IsUndefined(rootConfig.capi)
  /\ Len(rootConfig.capi.children) = 2
  /\ rootConfig.capi.children[1].node.hubClusterName = "cluster1"
  /\ rootConfig.capi.children[2].node.hubClusterName = "eu-cluster"
  /\ providers.threw
  /\ providers.message = NotDefinedError("eu-cluster")
  /\ registered = <<>>

\* every key of the capi node holds an object with a hubClusterName
AllKeysHoldHub ==
  \A i \in 1..Len(Keys(rootConfig.capi)) :
    /\ HoldsObject(Keys(rootConfig.capi)[i])
    /\ Keys(rootConfig.capi)[i].node.hubClusterName # Undefined

Readable(node) ==
  /\ node.hubClusterName # Undefined
  /\ rootConfig.reader = HANDS_BACK \/ ~NodeHasEmptyString(node)

\* every key of the capi node holds an object a provider can be read from
AllKeysAreProviders ==
  \A i \in 1..Len(Keys(rootConfig.capi)) :
    /\ HoldsObject(Keys(rootConfig.capi)[i])
    /\ Readable(Keys(rootConfig.capi)[i].node)

NodeOf(id) ==
  IF rootConfig.capi.hubClusterName # Undefined THEN rootConfig.capi
  ELSE LET i == CHOOSE j \in 1..Len(rootConfig.capi.children) :
                   rootConfig.capi.children[j].key = id
       IN rootConfig.capi.children[i].node

\* C17: a provider configured with defaultClusterOwner X gives the owner X
\* to the entity of every cluster without an owner annotation.
C17_DefaultClusterOwnerApplies ==
  ( /\ Mapped
    /\ ~IsUndefined(rootConfig)
    /\ NodeOf(config.id).defaultClusterOwner # Undefined
    /\ Annotation(mapIn.cluster, ANNOTATION_CAPI_CLUSTER_OWNER, Undefined) = Undefined )
  => mapOut.resource.spec.owner = NodeOf(config.id).defaultClusterOwner

\* C19: GET /status answers with exactly one record per cluster of the
\* hub's list, in list order, each with the keys name, namespace, cluster,
\* phase, controlPlaneReady and infrastructureReady, cluster being the
\* configured source hub name and each ready flag being false whenever the
\* cluster's status or that flag is absent.
C19_StatusRecordPerCluster ==
  (~IsUndefined(reply) /\ reply.status = 200) =>
    /\ Len(reply.body) = Len(reply.listed)
    /\ \A i \in 1..Len(reply.listed) :
         LET listed == reply.listed[i]
             record == reply.body[i]
             Flag(key) == IF IsUndefined(listed.status) THEN FALSE
                          ELSE IF key \notin DOMAIN listed.status THEN FALSE
                          ELSE listed.status[key]
         IN /\ DOMAIN record = {"name", "namespace", "cluster", "phase",
                                "controlPlaneReady", "infrastructureReady"}
            /\ record.cluster = router.sourceClusterName
            /\ ~IsUndefined(listed.metadata) =>
                 /\ listed.metadata.name # Undefined => record.name = listed.metadata.name
                 /\ listed.metadata.namespace # Undefined
                      => record.namespace = listed.metadata.namespace
            /\ (~IsUndefined(listed.status) /\ "phase" \in DOMAIN listed.status)
                 => record.phase = listed.status.phase
            /\ record.controlPlaneReady = Flag("controlPlaneReady")
            /\ record.infrastructureReady = Flag("infrastructureReady")

\* a cluster without status listed before one that is provisioning with a
\* ready infrastructure
C19_Witness ==
  /\ ~IsUndefined(reply)
  /\ reply.status = 200
  /\ Len(reply.listed) = 2
  /\ IsUndefined(reply.listed[1].status)
  /\ reply.body[1].controlPlaneReady = FALSE
  /\ reply.body[1].infrastructureReady = FALSE
  /\ reply.body[2] = [ name |-> "cluster1", namespace |-> "clusters",
                       cluster |-> "test-cluster", phase |-> "provisioning",
                       controlPlaneReady |-> FALSE, infrastructureReady |-> TRUE ]

\* C21: a cycle that got past the connection check makes exactly one list
\* call, at its start, and at most one applyMutation call; a rejected list
\* call ends the cycle with no further call, and a new list call is made
\* only by the next invocation of refresh.  (A refresh rejected with
\* 'Not initialized' makes no call at all.)
C21_OneListCallPerCycle ==
  [][\A r \in Runs :
       run'[r] # run[r] =>
         /\ run'[r].nList =
              (IF run'[r].outcome = "NotInitialized" THEN 0 ELSE 1)
         /\ run'[r].nApply \in {0, 1}
         /\ run[r].pc # "idle" => run'[r].nList = run[r].nList
         /\ run[r].pc = "listing" /\ run'[r].pc # "lookups"
              => /\ run'[r].pc = "idle"
                 /\ run'[r].outcome = "ListError"
                 /\ run'[r].nRead = 0 /\ run'[r].nApply = 0
         /\ run'[r].nApply = 1 /\ run[r].nApply = 0
              => run[r].pc = "lookups" /\ run'[r].pc = "applying"]_vars

\* a scheduled cycle submitting its one mutation after an earlier scheduled
\* cycle had failed and been logged
C21_Witness ==
  \E r \in Runs :
    /\ run[r].via = "task" /\ run[r].pc = "applying"
    /\ run[r].nList = 1 /\ run[r].nApply = 1
    /\ errorsLogged >= 1

\* C22: however many times connect is called on a provider, the refresh
\* task is handed to the task runner at most once.
C22_TaskRegisteredOnce ==
  Len(registered) <= 1

\* C23: once connect has bound a connection no step unbinds it, and no
\* refresh started from then on, after failed or successful cycles and
\* further connect calls, fails with 'Not initialized'.
C23_StaysConnected ==
  [][connection # Undefined =>
       /\ connection' # Undefined
       /\ \A r \in Runs :
            run'[r] # run[r] => run'[r].outcome # "NotInitialized"]_vars

\* a direct refresh past the connection check, after a cycle that was
\* applied, a scheduled cycle that failed, and a second connect
C23_Witness ==
  \E r \in Runs :
    /\ connection # Undefined
    /\ Len(registered) = 2
    /\ catalog.known /\ errorsLogged >= 1
    /\ run[r].via = "direct" /\ run[r].pc = "listing"

\* C24: cycles of one provider that overlap are independent.  Every step
\* of a cycle leaves the other cycle's list, lookup results and mutation
\* untouched; a cycle makes its own list call and one secret read per
\* cluster it fetched; the mutation it submits is the mapping of its own
\* clusters and its own lookup results; and the catalog's set for the key
\* changes only when an applyMutation is applied, to the set of that call,
\* so it is the set of the call applied last.
C24_OverlappingCyclesIndependent ==
  [][\A r \in Runs :
       run'[r] # run[r] =>
         /\ \A o \in Runs \ {r} : run'[o] = run[o]
         /\ run'[r].pc = "listing" => run'[r].nList = 1
         /\ run[r].pc = "listing" /\ run'[r].pc = "lookups"
              => run'[r].nRead = Len(run'[r].clusters)
         /\ run[r].pc = "lookups" /\ run'[r].pc = "applying"
              => run'[r].submitted =
                   Mutation(config, run[r].clusters, run[r].results)
         /\ IF run[r].pc = "applying" /\ run'[r].outcome = "ok"
            THEN catalog' = [known |-> TRUE,
                             entities |-> run[r].submitted.entities]
            ELSE catalog' = catalog]_vars

\* two cycles in flight at once, each about to have its own set applied,
\* the sets differing from each other and from what the catalog holds
C24_Witness ==
  /\ run[1].pc = "applying" /\ run[2].pc = "applying"
  /\ run[1].submitted.entities # <<>> /\ run[2].submitted.entities # <<>>
  /\ run[1].submitted.entities # run[2].submitted.entities
  /\ catalog.known
  /\ catalog.entities # run[1].submitted.entities
  /\ catalog.entities # run[2].submitted.entities

\* the list the hub returns once it has settled
SettledList == CHOOSE items \in env.lists : TRUE

\* the catalog holds one entity per cluster of the settled list, in order,
\* under the cluster's name and with its provider kind
CatalogMatchesHub ==
  /\ catalog.known
  /\ Len(catalog.entities) = Len(SettledList)
  /\ \A i \in 1..Len(SettledList) :
       LET entity == catalog.entities[i].entity
       IN /\ entity.metadata.name = SettledList[i].metadata.name
          /\ entity.metadata.annotations[ANNOTATION_CAPI_PROVIDER]
               = capiClusterProvider(SettledList[i])

\* C25: with the task runner invoking the registered task again and again,
\* once the hub's cluster set has stopped changing and the list call and
\* applyMutation no longer reject, the catalog's set for the provider's
\* key eventually is the projection of exactly that cluster set, whatever
\* cycles failed before.
C25_CatalogConverges ==
  (~env.faults /\ registered # <<>>) ~> CatalogMatchesHub

\* C26: every provider fromConfig returns is driven by one schedule source.
\* When the options hold a TaskRunner, it is the task runner of every
\* provider, also of those with a schedule of their own in the
\* configuration; otherwise the task runner is the one
\* scheduler.createScheduledTaskRunner made from the provider's configured
\* schedule.
C26_OneScheduleSource ==
  (FromConfigCalled /\ ~providers.threw) =>
    \A i \in 1..Len(providers.value) :
      LET provider == providers.value[i]
      IN IF options.schedule
         THEN provider.taskRunner = "options.schedule"
         ELSE /\ options.scheduler
              /\ provider.config.schedule # Undefined
              /\ provider.taskRunner = "scheduler:" \o provider.config.schedule

\* a TaskRunner and a scheduler both supplied, and providers constructed of
\* which one has a schedule of its own and one has none
C26_Witness ==
  /\ FromConfigCalled /\ ~providers.threw
  /\ options.schedule /\ options.scheduler
  /\ \E i, j \in 1..Len(providers.value) :
       /\ providers.value[i].config.schedule # Undefined
       /\ providers.value[j].config.schedule = Undefined
       /\ providers.value[i].taskRunner = "options.schedule"

\* C27: the unit of work is handed to the task runner only by connect,
\* after the connection was stored, so whenever the task runner holds it
\* the provider is connected, and no cycle started by the task runner
\* ends with 'Not initialized'.
C27_ScheduledCycleIsConnected ==
  /\ registered # <<>> => connection # Undefined
  /\ \A r \in Runs :
       run[r].via = "task" =>
         /\ connection # Undefined
         /\ run[r].outcome # "NotInitialized"

\* a cycle started by the task runner that is reading secrets, nothing
\* having been logged as failed
C27_Witness ==
  \E r \in Runs :
    /\ run[r].via = "task" /\ run[r].pc = "lookups"
    /\ run[r].nRead >= 1
    /\ errorsLogged = 0

\* C28: a cycle in which every kubeconfig lookup yielded absent submits
\* the mutation that the variant of the provider without kubeconfig
\* lookups submits for the same provider config and the same fetched
\* clusters: same entities, same annotation keys and values, same
\* locationKeys.
C28_VariantsAgreeWithoutCredentials ==
  \A r \in Runs :
    ( /\ run[r].pc = "applying"
      /\ \A i \in 1..Len(run[r].results) : IsUndefined(run[r].results[i]) )
    => Received(run[r].submitted)
         = Received(MutationWithoutKubeConfig(config, run[r].clusters))

\* what is mapped for a field whose annotation does not win: the provider
\* default when one is configured, else the fallback
WithoutAnnotation(default, fallback) ==
  IF default # Undefined THEN default ELSE fallback

\* C29: an owner, lifecycle or system annotation that is present with the
\* empty string as its value does not win: the mapped value is the
\* provider default when one is configured, else 'guest' for owner and
\* unset for lifecycle and system, as for a cluster without the annotation.
C29_EmptyAnnotationFallsThrough ==
  Mapped =>
    LET cluster == mapIn.cluster
        entity == mapOut.resource
    IN /\ Annotation(cluster, ANNOTATION_CAPI_CLUSTER_OWNER, Undefined) = ""
            => entity.spec.owner =
                 WithoutAnnotation(Default(config, "clusterOwner", Undefined), "guest")
       /\ Annotation(cluster, ANNOTATION_CAPI_CLUSTER_LIFECYCLE, Undefined) = ""
            => entity.spec.lifecycle =
                 WithoutAnnotation(Default(config, "lifecycle", Undefined), Undefined)
       /\ Annotation(cluster, ANNOTATION_CAPI_CLUSTER_SYSTEM, Undefined) = ""
            => entity.spec.system =
                 WithoutAnnotation(Default(config, "system", Undefined), Undefined)

\* owner, lifecycle and system annotations all empty: the lifecycle is the
\* configured default, the system is unset and the owner 'guest'
C29_Witness ==
  /\ Mapped
  /\ Annotation(mapIn.cluster, ANNOTATION_CAPI_CLUSTER_OWNER, Undefined) = ""
  /\ Annotation(mapIn.cluster, ANNOTATION_CAPI_CLUSTER_LIFECYCLE, Undefined) = ""
  /\ Annotation(mapIn.cluster, ANNOTATION_CAPI_CLUSTER_SYSTEM, Undefined) = ""
  /\ Default(config, "lifecycle", Undefined) = "staging"
  /\ mapOut.resource.spec.lifecycle = "staging"
  /\ mapOut.resource.spec.system = Undefined
  /\ mapOut.resource.spec.owner = "guest"

\* C30: no step of a refresh cycle, whether the cycle succeeds or fails,
\* changes the provider's config, its bound connection or what it handed
\* to the task runner; a cycle starts with nothing of an earlier cycle, and
\* the mutation it submits is the mapping of the clusters it listed and the
\* credentials it looked up under that config.
C30_RefreshLeavesProviderState ==
  [][\A r \in Runs :
       run'[r] # run[r] =>
         /\ config' = config
         /\ connection' = connection
         /\ registered' = registered
         /\ run[r].pc = "idle" /\ run'[r].pc = "listing"
              => run'[r] = [IdleRun EXCEPT !.via = run'[r].via,
                                           !.pc = "listing", !.nList = 1]
         /\ run'[r].pc = "applying"
              => run'[r].submitted =
                   Mutation(config, run[r].clusters, run[r].results)]_vars

\* a cycle submitting one entity while the catalog holds the two entities
\* of an earlier cycle, a failed cycle having been logged in between
C30_Witness ==
  \E r \in Runs :
    /\ run[r].pc = "applying"
    /\ Len(run[r].submitted.entities) = 1
    /\ catalog.known /\ Len(catalog.entities) = 2
    /\ errorsLogged >= 1

====
